---- MODULE Spec2Model ----
(***************************************************************************)
(* The loaders of mathieuadams/meilleurecole as state machines over one    *)
(* PostgreSQL connection.  Every script opens a connection with            *)
(* autocommit off, so the database has a committed state (db) and the view *)
(* of the open transaction (tx).  A statement that fails leaves the        *)
(* transaction aborted until the next rollback or commit.                  *)
(*                                                                         *)
(* Each script has its own initial predicate, next-state relation and      *)
(* specification; prog names the script a behaviour runs.                  *)
(*                                                                         *)
(* Percentages are integers in hundredths (80.26 is 8026).  A nullable     *)
(* value is a set: {} is NULL/None and {v} is the value v.                 *)
(***************************************************************************)
EXTENDS Integers, Sequences, FiniteSets, TLC

VARIABLES
    prog,      \* the script that runs
    pc,        \* its position
    opt,       \* its command line options
    csv,       \* the rows read from its CSV file(s)
    idx,       \* index of the next CSV row (or school) of the main loop
    mem,       \* its in-memory structures (staged rows, grouped scores, ...)
    cnt,       \* its summary counters
    db,        \* committed contents of the tables
    tx,        \* contents as seen inside the open transaction
    aborted,   \* TRUE while the open transaction is in the failed state
    run,       \* number of the current run of the script (1 or 2)
    hist       \* history: snapshots and per-row outcomes, read by the properties only

vars == <<prog, pc, opt, csv, idx, mem, cnt, db, tx, aborted, run, hist>>

----------------------------------------------------------------------------
(* Bounds of the model *)

\* Longest CSV file.
MaxRows == 3

\* The Scottish loaders commit every 100 successful writes and update_edubase
\* every 100 rows; the model scales the batch down so that a batch boundary
\* falls inside a CSV of MaxRows rows.
CommitEvery == 2

----------------------------------------------------------------------------
(* Values *)

NULL == {}
Val(v) == {v}
IsNull(x) == x = {}
NotNull(x) == x # {}
Get(x) == CHOOSE v \in x : TRUE

\* COALESCE(a, b) of SQL.
CoalesceOverwrites(a, b) == a
Coalesce(a, b) == IF NotNull(a) THEN a ELSE b

\* CSV cells as pandas hands them to the scripts.
NaN == [kind |-> "nan", v |-> 0]            \* empty cell
Marker == [kind |-> "marker", v |-> 0]      \* suppressed value: z, c, x, *, -, n/a
Junk == [kind |-> "junk", v |-> 0]          \* any other text that is no number
Num(n) == [kind |-> "num", v |-> n]

\* pd.isna(value)
IsNa(c) == c.kind = "nan"

\* int(row['SeedCode']) raises ValueError on text that is no number.
IntRaises(c) == c.kind \in {"marker", "junk"}

SeqsUpTo(S, n) == UNION {[1..k -> S] : k \in 0..n}
NonEmptySeqsUpTo(S, n) == UNION {[1..k -> S] : k \in 1..n}

RECURSIVE SeqFilter(_, _)
SeqFilter(s, keep) ==
    IF s = <<>> THEN <<>>
    ELSE IF keep[1] THEN <<Head(s)>> \o SeqFilter(Tail(s), Tail(keep))
         ELSE SeqFilter(Tail(s), Tail(keep))

----------------------------------------------------------------------------
(* The connection: psycopg2 with autocommit off *)

\* conn.commit(): COMMIT makes the transaction's writes durable; COMMIT of a
\* failed transaction is a ROLLBACK.
CommitDbLosesWork(d, t, ab) == d
CommitDb(d, t, ab) == IF ab THEN d ELSE t

\* conn.rollback(): every write since the last commit is discarded.
RollbackTx(d, t) == d

----------------------------------------------------------------------------
(* Tables shared by the loaders *)

Y2324 == "2023/2024"
OtherYear == "2022/2023"

\* URNs of the rows of uk_schools.
SchoolUrns == {1, 2}

\* School keys a CSV may name; 3 is not in uk_schools.
CsvSeeds == {1, 2, 3}

\* uk_absence_data.urn REFERENCES uk_schools(urn): an INSERT naming a URN that
\* uk_schools does not hold fails.
FkViolation(schools, urn) == urn \notin schools

\* A row of uk_absence_data.  The table has an index on (urn, academic_year)
\* and no unique constraint, so it is a sequence that may hold a key twice.
AbsRow(urn, year, overall, persistent, la, estab) ==
    [urn |-> urn, year |-> year, overall |-> overall, persistent |-> persistent,
     la_code |-> la, estab |-> estab]

\* SELECT ... FROM uk_absence_data WHERE urn = %s AND academic_year = %s
AbsExistingNever(t, urn, year) == FALSE
AbsExisting(t, urn, year) ==
    \E i \in 1..Len(t) : t[i].urn = urn /\ t[i].year = year

AbsCount(t, urn, year) ==
    Cardinality({i \in 1..Len(t) : t[i].urn = urn /\ t[i].year = year})

\* Contents of uk_absence_data before a loader runs.
InitialAbsenceTables ==
    { <<>>,
      <<AbsRow(1, Y2324, Val(500), Val(1200), Val(9), Val(1))>>,
      <<AbsRow(1, OtherYear, Val(700), Val(1500), Val(9), Val(1))>> }

----------------------------------------------------------------------------
(* add_scottish_absence_data.py *)

\* safe_float: NaN, a suppressed marker or other text give None.
SafeFloat(c) == IF c.kind = "num" THEN Val(c.v) ELSE NULL

ScotAbsCsvRow(seed, att, auth, unauth) ==
    [seed |-> seed, att |-> att, auth |-> auth, unauth |-> unauth]

\* The rows a CSV is built from: two schools with an attendance rate in range,
\* one out of range, or only the two absence rates; a school with no figures; a
\* row without SeedCode; a SeedCode that is no number; a school that uk_schools
\* does not hold.
ScotAbsCsvRows ==
    { ScotAbsCsvRow(Num(s), Num(a), NaN, NaN) : s \in {1, 2}, a \in {8026, 12000} }
    \cup { ScotAbsCsvRow(Num(s), Marker, Num(300), Num(150)) : s \in {1, 2} }
    \cup { ScotAbsCsvRow(Num(1), Marker, NaN, Num(150)),
           ScotAbsCsvRow(NaN, Num(9000), NaN, NaN),
           ScotAbsCsvRow(Junk, Num(9000), NaN, NaN),
           ScotAbsCsvRow(Num(3), Num(9000), NaN, NaN) }

\* overall_absence: 100 - attendance, else authorised + unauthorised, else None.
ScotOverallAbsence(r) ==
    LET attendance_rate == SafeFloat(r.att)
        auth_absence == SafeFloat(r.auth)
        unauth_absence == SafeFloat(r.unauth)
    IN  IF NotNull(attendance_rate) THEN Val(10000 - Get(attendance_rate))
        ELSE IF NotNull(auth_absence) /\ NotNull(unauth_absence)
             THEN Val(Get(auth_absence) + Get(unauth_absence))
             ELSE NULL

\* UPDATE uk_absence_data SET overall_absence_rate = %s,
\*   persistent_absence_rate = NULL, la_code = NULL, estab_number = %s
\* WHERE urn = %s AND academic_year = '2023/2024'
ScotAbsUpdate(t, seed, overall) ==
    [i \in 1..Len(t) |->
        IF t[i].urn = seed /\ t[i].year = Y2324
        THEN [t[i] EXCEPT !.overall = overall, !.persistent = NULL,
                          !.la_code = NULL, !.estab = Val(seed)]
        ELSE t[i]]

\* INSERT INTO uk_absence_data (...) VALUES (seed, NULL, seed, overall, NULL, '2023/2024')
ScotAbsInsert(t, seed, overall) ==
    Append(t, AbsRow(seed, Y2324, overall, NULL, NULL, Val(seed)))

\* One pass of the loop body over row r, with t the table as the transaction
\* sees it: what happens, and the table afterwards.
ScotAbsRowOutcome(r, t, schools) ==
    IF IsNa(r.seed) THEN [kind |-> "skipped", tab |-> t]
    ELSE IF IntRaises(r.seed) THEN [kind |-> "raised", tab |-> t]
    ELSE LET seed_code == r.seed.v
             overall_absence == ScotOverallAbsence(r)
         IN  IF IsNull(overall_absence) THEN [kind |-> "nodata", tab |-> t]
             ELSE IF AbsExisting(t, seed_code, Y2324)
                  THEN [kind |-> "updated",
                        tab |-> ScotAbsUpdate(t, seed_code, overall_absence)]
                  ELSE IF FkViolation(schools, seed_code)
                       THEN [kind |-> "raised", tab |-> t]
                       ELSE [kind |-> "inserted",
                             tab |-> ScotAbsInsert(t, seed_code, overall_absence)]

\* if (inserted + updated) % 100 == 0 and (inserted + updated) > 0: conn.commit()
ScotAbsBatchFull(n) == n % CommitEvery = 0 /\ n > 0

NoWrites == [s \in CsvSeeds |-> NULL]

InitScotAbs ==
    /\ prog = "scot_absence"
    /\ pc = "rows"
    /\ opt = [dry_run |-> FALSE]
    /\ csv \in SeqsUpTo(ScotAbsCsvRows, MaxRows)
    /\ idx = 1
    /\ mem = <<>>
    /\ cnt = [inserted |-> 0, updated |-> 0, skipped |-> 0]
    /\ db \in {[schools |-> SchoolUrns, absence |-> t] : t \in InitialAbsenceTables}
    /\ tx = db
    /\ aborted = FALSE
    /\ run = 1
    /\ hist = [db0 |-> db, after1 |-> db, errors |-> 0, lastOk |-> NoWrites,
               okSeeds |-> {}, lastKind |-> "none", before |-> db.absence]

\* The body of "for index, row in df.iterrows()" for row idx, its except
\* clause and its batch commit included.
ScotAbsRow ==
    /\ prog = "scot_absence"
    /\ pc = "rows"
    /\ idx <= Len(csv)
    /\ LET r == csv[idx]
           o == ScotAbsRowOutcome(r, tx.absence, tx.schools)
           wrote == o.kind \in {"inserted", "updated"}
           inserted == cnt.inserted + (IF o.kind = "inserted" THEN 1 ELSE 0)
           updated == cnt.updated + (IF o.kind = "updated" THEN 1 ELSE 0)
           skipped == cnt.skipped + (IF o.kind \in {"skipped", "raised"} THEN 1 ELSE 0)
           t1 == [tx EXCEPT !.absence = o.tab]
           commits == wrote /\ ScotAbsBatchFull(inserted + updated)
       IN  /\ cnt' = [inserted |-> inserted, updated |-> updated, skipped |-> skipped]
           /\ db' = IF commits THEN CommitDb(db, t1, FALSE) ELSE db
           /\ tx' = IF o.kind = "raised" THEN RollbackTx(db, tx) ELSE t1
           /\ hist' = [hist EXCEPT
                          !.errors = @ + (IF o.kind = "raised" THEN 1 ELSE 0),
                          !.lastOk = IF wrote
                                     THEN [@ EXCEPT ![r.seed.v] = ScotOverallAbsence(r)]
                                     ELSE @,
                          !.okSeeds = IF wrote THEN @ \cup {r.seed.v} ELSE @,
                          !.lastKind = o.kind,
                          !.before = tx.absence]
    /\ idx' = idx + 1
    /\ aborted' = FALSE
    /\ UNCHANGED <<prog, pc, opt, csv, mem, run>>

\* "Final commit" after the loop.
ScotAbsFinish ==
    /\ prog = "scot_absence"
    /\ pc = "rows"
    /\ idx > Len(csv)
    /\ db' = CommitDb(db, tx, aborted)
    /\ tx' = db'
    /\ aborted' = FALSE
    /\ pc' = "done"
    /\ hist' = [hist EXCEPT !.lastKind = "commit"]
    /\ UNCHANGED <<prog, opt, csv, idx, mem, cnt, run>>

\* The script is started again over the same CSV.
ScotAbsRerun ==
    /\ prog = "scot_absence"
    /\ pc = "done"
    /\ run = 1
    /\ run' = 2
    /\ pc' = "rows"
    /\ idx' = 1
    /\ cnt' = [inserted |-> 0, updated |-> 0, skipped |-> 0]
    /\ hist' = [hist EXCEPT !.after1 = db, !.lastOk = NoWrites, !.okSeeds = {},
                            !.lastKind = "none"]
    /\ UNCHANGED <<prog, opt, csv, mem, db, tx, aborted>>

NextScotAbs == ScotAbsRow \/ ScotAbsFinish \/ ScotAbsRerun

SpecScotAbs == InitScotAbs /\ [][NextScotAbs]_vars

----------------------------------------------------------------------------
(* add_scottish_census_data.py *)

\* safe_int: int(float(value)), None for NaN, a suppressed marker or other text.
SafeInt(c) == IF c.kind = "num" THEN Val(c.v) ELSE NULL

\* (n / number_on_roll) * 100 in hundredths, when the roll is known and positive.
PctOfRoll(n, roll) ==
    IF NotNull(roll) /\ Get(roll) > 0 /\ NotNull(n)
    THEN Val((Get(n) * 10000) \div Get(roll))
    ELSE NULL

CensusCsvRow(seed, roll, female, male, asn, special, eal, noneal, fsm15, fsmOther, fsm15pct, fsmOtherPct, schoolType) ==
    [seed |-> seed, roll |-> roll, female |-> female, male |-> male, asn |-> asn,
     special |-> special, eal |-> eal, noneal |-> noneal, fsm15 |-> fsm15,
     fsmOther |-> fsmOther, fsm15pct |-> fsm15pct, fsmOtherPct |-> fsmOtherPct,
     schoolType |-> schoolType]

\* The rows a census CSV is built from: a school with every figure, the same
\* school with most figures suppressed, a second school, a row without
\* SeedCode and a SeedCode that is no number.
CensusCsvRows ==
    { CensusCsvRow(Num(1), Num(200), Num(90), Num(110), Num(50), Num(0), Num(20),
                   Num(180), Num(30), Num(10), Num(1500), Num(500), Val("Primary")),
      CensusCsvRow(Num(1), Marker, Num(90), NaN, Marker, NaN, NaN,
                   NaN, NaN, Num(10), NaN, Num(500), NULL),
      CensusCsvRow(Num(2), Num(100), Num(40), Num(60), Marker, Num(100), Num(5),
                   Num(95), Num(12), NaN, Num(1200), NaN, Val("Special")),
      CensusCsvRow(NaN, Num(100), Num(40), Num(60), NaN, NaN, NaN,
                   NaN, NaN, NaN, NaN, NaN, NULL),
      CensusCsvRow(Junk, Num(100), Num(40), Num(60), NaN, NaN, NaN,
                   NaN, NaN, NaN, NaN, NaN, NULL) }

\* The columns the script computes from a CSV row (lines 71-133).
CensusValues(r) ==
    LET number_on_roll == SafeInt(r.roll)
        number_girls == SafeInt(r.female)
        number_boys == SafeInt(r.male)
        total_sen_support == SafeInt(r.asn)
        total_sen_ehcp == SafeInt(r.special)
        number_eal == SafeInt(r.eal)
        number_english_first == SafeInt(r.noneal)
        fsm_p1p5 == SafeInt(r.fsm15)
        fsm_other == SafeInt(r.fsmOther)
        number_fsm == IF NotNull(fsm_p1p5) /\ NotNull(fsm_other)
                      THEN Val(Get(fsm_p1p5) + Get(fsm_other))
                      ELSE IF NotNull(fsm_p1p5) THEN fsm_p1p5
                      ELSE IF NotNull(fsm_other) THEN fsm_other
                      ELSE NULL
        fsm_p1p5_pct == SafeFloat(r.fsm15pct)
        fsm_other_pct == SafeFloat(r.fsmOtherPct)
        percentage_fsm_ever6 ==
            IF NotNull(fsm_p1p5_pct) /\ NotNull(fsm_other_pct)
            THEN Val((Get(fsm_p1p5_pct) + Get(fsm_other_pct)) \div 2)
            ELSE IF NotNull(fsm_p1p5_pct) THEN fsm_p1p5_pct
            ELSE IF NotNull(fsm_other_pct) THEN fsm_other_pct
            ELSE NULL
    IN  [school_type |-> r.schoolType,
         number_on_roll |-> number_on_roll,
         number_girls |-> number_girls,
         number_boys |-> number_boys,
         percentage_girls |-> PctOfRoll(number_girls, number_on_roll),
         percentage_boys |-> PctOfRoll(number_boys, number_on_roll),
         total_sen_support |-> total_sen_support,
         percentage_sen_support |-> PctOfRoll(total_sen_support, number_on_roll),
         total_sen_ehcp |-> total_sen_ehcp,
         percentage_sen_ehcp |-> PctOfRoll(total_sen_ehcp, number_on_roll),
         number_eal |-> number_eal,
         number_english_first_language |-> number_english_first,
         percentage_eal |-> PctOfRoll(number_eal, number_on_roll),
         percentage_english_first_language |-> PctOfRoll(number_english_first, number_on_roll),
         number_fsm |-> number_fsm,
         number_fsm_ever6 |-> number_fsm,
         total_fsm_ever6 |-> number_fsm,
         percentage_fsm_ever6 |-> percentage_fsm_ever6]

\* The columns of uk_census_data that the UPDATE and the INSERT take from the CSV.
CensusCsvColumns ==
    {"school_type", "number_on_roll", "number_girls", "number_boys",
     "percentage_girls", "percentage_boys", "total_sen_support",
     "percentage_sen_support", "total_sen_ehcp", "percentage_sen_ehcp",
     "number_eal", "number_english_first_language", "percentage_eal",
     "percentage_english_first_language", "number_fsm", "number_fsm_ever6",
     "total_fsm_ever6", "percentage_fsm_ever6"}

\* The nullable columns of uk_census_data.
CensusColumns ==
    CensusCsvColumns \cup {"la_code", "estab_number", "number_unclassified_language",
                           "percentage_unclassified_language"}

\* UPDATE uk_census_data SET la_code = NULL, estab_number = %s, school_type = %s, ...
\* WHERE urn = %s AND academic_year = '2023/2024'
CensusUpdate(t, seed, v) ==
    [i \in 1..Len(t) |->
        IF t[i].urn = seed /\ t[i].year = Y2324
        THEN [c \in DOMAIN t[i] |->
                IF c \in CensusCsvColumns THEN v[c]
                ELSE IF c = "la_code" THEN NULL
                ELSE IF c = "estab_number" THEN Val(seed)
                ELSE t[i][c]]
        ELSE t[i]]

\* INSERT INTO uk_census_data (...) VALUES (...): la_code and the two
\* unclassified-language columns are NULL.
CensusNewRow(seed, v) ==
    [c \in CensusColumns \cup {"urn", "year"} |->
        IF c = "urn" THEN seed
        ELSE IF c = "year" THEN Y2324
        ELSE IF c \in CensusCsvColumns THEN v[c]
        ELSE IF c = "estab_number" THEN Val(seed)
        ELSE NULL]

CensusInsert(t, seed, v) == Append(t, CensusNewRow(seed, v))

\* SELECT id FROM uk_census_data WHERE urn = %s AND academic_year = '2023/2024'
CensusExisting(t, seed) ==
    \E i \in 1..Len(t) : t[i].urn = seed /\ t[i].year = Y2324

\* A row another loader wrote earlier, every column known.
CensusKnownRow(urn, year) ==
    [c \in CensusColumns \cup {"urn", "year"} |->
        IF c = "urn" THEN urn
        ELSE IF c = "year" THEN year
        ELSE IF c = "school_type" THEN Val("Primary")
        ELSE Val(7)]

InitialCensusTables ==
    { <<>>, <<CensusKnownRow(1, Y2324)>>, <<CensusKnownRow(1, OtherYear)>> }

CensusRowOutcome(r, t) ==
    IF IsNa(r.seed) THEN [kind |-> "skipped", tab |-> t]
    ELSE IF IntRaises(r.seed) THEN [kind |-> "raised", tab |-> t]
    ELSE LET seed_code == r.seed.v
             v == CensusValues(r)
         IN  IF CensusExisting(t, seed_code)
             THEN [kind |-> "updated", tab |-> CensusUpdate(t, seed_code, v)]
             ELSE [kind |-> "inserted", tab |-> CensusInsert(t, seed_code, v)]

\* if (inserted + updated) % 100 == 0: conn.commit()
CensusBatchFull(n) == n % CommitEvery = 0

InitScotCensus ==
    /\ prog = "scot_census"
    /\ pc = "rows"
    /\ opt = [dry_run |-> FALSE]
    /\ csv \in SeqsUpTo(CensusCsvRows, MaxRows)
    /\ idx = 1
    /\ mem = <<>>
    /\ cnt = [inserted |-> 0, updated |-> 0, skipped |-> 0]
    /\ db \in {[census |-> t] : t \in InitialCensusTables}
    /\ tx = db
    /\ aborted = FALSE
    /\ run = 1
    /\ hist = [db0 |-> db, after1 |-> db, errors |-> 0, okSeeds |-> {},
               lastKind |-> "none", before |-> db.census]

\* The body of the loop for row idx, its except clause and its batch commit
\* included.
ScotCensusRow ==
    /\ prog = "scot_census"
    /\ pc = "rows"
    /\ idx <= Len(csv)
    /\ LET r == csv[idx]
           o == CensusRowOutcome(r, tx.census)
           wrote == o.kind \in {"inserted", "updated"}
           inserted == cnt.inserted + (IF o.kind = "inserted" THEN 1 ELSE 0)
           updated == cnt.updated + (IF o.kind = "updated" THEN 1 ELSE 0)
           skipped == cnt.skipped + (IF o.kind \in {"skipped", "raised"} THEN 1 ELSE 0)
           t1 == [tx EXCEPT !.census = o.tab]
           commits == wrote /\ CensusBatchFull(inserted + updated)
       IN  /\ cnt' = [inserted |-> inserted, updated |-> updated, skipped |-> skipped]
           /\ db' = IF commits THEN CommitDb(db, t1, FALSE) ELSE db
           /\ tx' = IF o.kind = "raised" THEN RollbackTx(db, tx) ELSE t1
           /\ hist' = [hist EXCEPT
                          !.errors = @ + (IF o.kind = "raised" THEN 1 ELSE 0),
                          !.okSeeds = IF wrote THEN @ \cup {r.seed.v} ELSE @,
                          !.lastKind = o.kind,
                          !.before = tx.census]
    /\ idx' = idx + 1
    /\ aborted' = FALSE
    /\ UNCHANGED <<prog, pc, opt, csv, mem, run>>

\* "Final commit" after the loop.
ScotCensusFinish ==
    /\ prog = "scot_census"
    /\ pc = "rows"
    /\ idx > Len(csv)
    /\ db' = CommitDb(db, tx, aborted)
    /\ tx' = db'
    /\ aborted' = FALSE
    /\ pc' = "done"
    /\ hist' = [hist EXCEPT !.lastKind = "commit"]
    /\ UNCHANGED <<prog, opt, csv, idx, mem, cnt, run>>

\* The script is started again over the same CSV.
ScotCensusRerun ==
    /\ prog = "scot_census"
    /\ pc = "done"
    /\ run = 1
    /\ run' = 2
    /\ pc' = "rows"
    /\ idx' = 1
    /\ cnt' = [inserted |-> 0, updated |-> 0, skipped |-> 0]
    /\ hist' = [hist EXCEPT !.after1 = db, !.okSeeds = {}, !.lastKind = "none"]
    /\ UNCHANGED <<prog, opt, csv, mem, db, tx, aborted>>

NextScotCensus == ScotCensusRow \/ ScotCensusFinish \/ ScotCensusRerun

SpecScotCensus == InitScotCensus /\ [][NextScotCensus]_vars

\* The two Scottish yearly loaders.
InitScot == InitScotAbs \/ InitScotCensus
NextScot == NextScotAbs \/ NextScotCensus
SpecScot == InitScot /\ [][NextScot]_vars

----------------------------------------------------------------------------
(* update_ni_attendance.py *)

\* pct(): the first number in the text with % and commas removed, else None.
Pct(c) == IF c.kind = "num" THEN Val(c.v) ELSE NULL

\* re.sub(r"[^0-9]", "", ref): the digits of the Reference cell, None when
\* the cell is empty or holds no digit.
RefUrn(c) == IF c.kind = "num" THEN Val(c.v) ELSE NULL

NiCsvRow(ref, att, ab) == [ref |-> ref, att |-> att, abs |-> ab]

\* The rows the NI attendance files are built from.
NiCsvRows ==
    { NiCsvRow(Num(1), Num(9000), Num(1000)),
      NiCsvRow(Num(1), Num(9550), NaN),
      NiCsvRow(Num(2), Num(9000), NaN),
      NiCsvRow(Num(3), Num(9000), NaN),
      NiCsvRow(NaN, Num(9000), NaN),
      NiCsvRow(Num(1), Marker, Num(1000)) }

\* read_file keeps the rows that have a Reference with digits and a % attendance.
NiStagedRow(r, academic_year) ==
    [urn |-> Get(RefUrn(r.ref)), year |-> academic_year,
     att |-> Pct(r.att), abs |-> Pct(r.abs)]

NiReadFiles(rows, academic_year) ==
    LET keep == [i \in 1..Len(rows) |->
                    NotNull(RefUrn(rows[i].ref)) /\ NotNull(Pct(rows[i].att))]
        kept == SeqFilter(rows, keep)
    IN  [i \in 1..Len(kept) |-> NiStagedRow(kept[i], academic_year)]

\* "De-dupe by (urn, year): last wins": a dict keyed by (urn, year), so the
\* keys keep the order of their first occurrence and the values are the last.
NiDedup(staged) ==
    LET SameKey(a, b) == a.urn = b.urn /\ a.year = b.year
        first == [i \in 1..Len(staged) |->
                    \A j \in 1..(i - 1) : ~SameKey(staged[j], staged[i])]
        firsts == SeqFilter(staged, first)
        Last(k) == CHOOSE i \in 1..Len(staged) :
                      /\ SameKey(staged[i], k)
                      /\ \A j \in (i + 1)..Len(staged) : ~SameKey(staged[j], k)
    IN  [i \in 1..Len(firsts) |-> staged[Last(firsts[i])]]

\* ALTER TABLE uk_absence_data ADD COLUMN attendance_rate NUMERIC, when missing.
NiEnsureColumn(t) ==
    [i \in 1..Len(t) |->
        IF "attendance" \in DOMAIN t[i] THEN t[i]
        ELSE [c \in DOMAIN t[i] \cup {"attendance"} |->
                 IF c = "attendance" THEN NULL ELSE t[i][c]]]

\* INSERT INTO uk_absence_data (...) SELECT t.urn, NULL, NULL,
\*   t.overall_absence_rate, NULL, t.academic_year, NOW(), t.attendance_rate
\* FROM tmp_seed_att t JOIN uk_schools s ON s.urn = t.urn
NiInsertSelect(t, staged, schools) ==
    LET joined == SeqFilter(staged, [i \in 1..Len(staged) |-> staged[i].urn \in schools])
    IN  t \o [i \in 1..Len(joined) |->
                [urn |-> joined[i].urn, year |-> joined[i].year,
                 overall |-> joined[i].abs, persistent |-> NULL, la_code |-> NULL,
                 estab |-> NULL, attendance |-> joined[i].att]]

InitNiAtt ==
    /\ prog = "ni_attendance"
    /\ pc = "start"
    /\ opt \in {[dry_run |-> d, academic_year |-> Y2324] : d \in BOOLEAN}
    /\ csv \in SeqsUpTo(NiCsvRows, MaxRows)
    /\ idx = 1
    /\ mem = <<>>
    /\ cnt = [inserted |-> 0]
    /\ db \in {[schools |-> SchoolUrns, absence |-> t] : t \in InitialAbsenceTables}
    /\ tx = db
    /\ aborted = FALSE
    /\ run = 1
    /\ hist = [db0 |-> db, after1 |-> db]

\* main(): read and de-duplicate the files, stage them, insert the staged
\* rows whose URN uk_schools holds, commit (or roll back under --dry-run).
NiAttMain ==
    /\ prog = "ni_attendance"
    /\ pc = "start"
    /\ LET staged == NiDedup(NiReadFiles(csv, opt.academic_year))
           t0 == [tx EXCEPT !.absence = NiEnsureColumn(@)]
           t1 == [t0 EXCEPT !.absence = NiInsertSelect(@, staged, t0.schools)]
       IN  IF staged = <<>>
           THEN /\ UNCHANGED <<db, tx, cnt>>
                /\ mem' = staged
           ELSE IF opt.dry_run
           THEN /\ tx' = RollbackTx(db, t0)
                /\ UNCHANGED <<db, cnt>>
                /\ mem' = staged
           ELSE /\ db' = CommitDb(db, t1, FALSE)
                /\ tx' = db'
                /\ cnt' = [inserted |-> Len(t1.absence) - Len(t0.absence)]
                /\ mem' = staged
    /\ pc' = "done"
    /\ UNCHANGED <<prog, opt, csv, idx, aborted, run, hist>>

\* The script is started again with the same files and options.
NiAttRerun ==
    /\ prog = "ni_attendance"
    /\ pc = "done"
    /\ run = 1
    /\ run' = 2
    /\ pc' = "start"
    /\ hist' = [hist EXCEPT !.after1 = db]
    /\ UNCHANGED <<prog, opt, csv, idx, mem, cnt, db, tx, aborted>>

NextNiAtt == NiAttMain \/ NiAttRerun

SpecNiAtt == InitNiAtt /\ [][NextNiAtt]_vars

----------------------------------------------------------------------------
(* insert_wales_attendance.py *)

\* Successive runs of one script that the model follows.
MaxRuns == 2

\* to_float: the first number in the cell, None when it is empty, a marker
\* or holds no number.
ToFloat(c) == IF c.kind = "num" THEN Val(c.v) ELSE NULL

\* round(x, 2) of a value given in ten-thousandths, as hundredths; a tie
\* goes to the even hundredth.
Round2(x) ==
    LET q == x \div 100
        rem == x % 100
    IN  IF rem < 50 THEN q
        ELSE IF rem > 50 THEN q + 1
        ELSE IF q % 2 = 0 THEN q ELSE q + 1

\* uk_schools.la_code and uk_schools.establishment_number of a school.
SchoolLaCode(urn) == Val(660 + urn)
SchoolEstab(urn) == Val(4000 + urn)

WalesCsvRow(urn, att, ab, pers) == [urn |-> urn, att |-> att, abs |-> ab, pers |-> pers]

\* The rows a Wales CSV is built from: School_Number 1 twice with different
\* figures, attendance in the wrong scale (8026 for 80.26), a school that
\* uk_schools does not hold, a negative attendance, a row without number.
WalesCsvRows ==
    { WalesCsvRow(Num(1), Num(8026), Num(1974), Num(1200)),
      WalesCsvRow(Num(1), Num(9000), Num(15000), Num(15000)),
      WalesCsvRow(Num(2), Num(802600), Num(0 - 200), NaN),
      WalesCsvRow(Num(3), Num(8026), NaN, NaN),
      WalesCsvRow(Num(2), Num(0 - 500), NaN, NaN),
      WalesCsvRow(NaN, Num(8026), NaN, NaN) }

\* overall_absence of one CSV row (lines 156-200): the absence column when
\* the file has one, else 100 - attendance with an attendance above 100
\* divided by 100 first; "skip" when the row is dropped as invalid.
\* Attendance is in hundredths, so 100 is 10000 and 10000 is 1000000; the
\* result is in ten-thousandths.
WalesOverallAbsence(r, absence_key) ==
    LET attendance == ToFloat(r.att)
        scaled == IF NotNull(attendance) /\ Get(attendance) > 10000
                  THEN Get(attendance)            \* attendance / 100.0
                  ELSE IF NotNull(attendance) THEN Get(attendance) * 100 ELSE 0
        raw == IF absence_key
               THEN (IF NotNull(ToFloat(r.abs)) THEN Val(Get(ToFloat(r.abs)) * 100) ELSE NULL)
               ELSE IF IsNull(attendance) THEN NULL
               ELSE Val(1000000 - scaled)
        skip == /\ ~absence_key
                /\ NotNull(attendance)
                /\ \/ Get(attendance) > 1000000
                   \/ scaled < 0
                   \/ scaled > 1000000
        clamped == IF IsNull(raw) THEN NULL
                   ELSE IF Get(raw) < 0 THEN Val(0)
                   ELSE IF Get(raw) > 1000000 THEN Val(1000000)
                   ELSE raw
    IN  [skip |-> skip, overall |-> clamped]

\* persistent_absence of one CSV row (lines 186-191): None when out of [0, 100].
WalesPersistent(r) ==
    LET p == ToFloat(r.pers)
    IN  IF NotNull(p) /\ (Get(p) < 0 \/ Get(p) > 10000) THEN NULL ELSE p

\* read_attendance_data: the staged rows, in CSV order.
ReadAttendanceData(rows, absence_key, academic_year) ==
    LET keep == [i \in 1..Len(rows) |->
                    /\ NotNull(RefUrn(rows[i].urn))
                    /\ ~WalesOverallAbsence(rows[i], absence_key).skip
                    /\ NotNull(WalesOverallAbsence(rows[i], absence_key).overall)]
        kept == SeqFilter(rows, keep)
    IN  [i \in 1..Len(kept) |->
            [urn |-> Get(RefUrn(kept[i].urn)),
             la_code |-> NULL,
             estab_number |-> NULL,
             overall_absence_rate |->
                 Val(Round2(Get(WalesOverallAbsence(kept[i], absence_key).overall))),
             persistent_absence_rate |-> WalesPersistent(kept[i]),
             academic_year |-> academic_year]]

\* SELECT urn FROM uk_absence_data WHERE urn = ANY(%s) AND academic_year = %s
WalesExistingUrns(t, urns, year) ==
    {u \in urns : AbsExisting(t, u, year)}

\* The split of the staged rows (lines 294-313).
WalesInsertDataAll(data, existing_urns, schools) ==
    SeqFilter(data, [i \in 1..Len(data) |-> data[i].urn \in schools])
WalesInsertData(data, existing_urns, schools) ==
    SeqFilter(data, [i \in 1..Len(data) |->
                        data[i].urn \in schools /\ data[i].urn \notin existing_urns])

WalesUpdateData(data, existing_urns, schools, update_existing) ==
    SeqFilter(data, [i \in 1..Len(data) |->
                        /\ data[i].urn \in schools
                        /\ data[i].urn \in existing_urns
                        /\ update_existing])

\* cur.executemany(insert_query, insert_data)
WalesInsertMany(t, insert_data) ==
    t \o [i \in 1..Len(insert_data) |->
            AbsRow(insert_data[i].urn, insert_data[i].academic_year,
                   insert_data[i].overall_absence_rate,
                   insert_data[i].persistent_absence_rate,
                   SchoolLaCode(insert_data[i].urn), SchoolEstab(insert_data[i].urn))]

\* cur.executemany(update_query, update_data): one UPDATE per row, in order.
RECURSIVE WalesUpdateMany(_, _)
WalesUpdateMany(t, update_data) ==
    IF update_data = <<>> THEN t
    ELSE LET u == Head(update_data)
             t1 == [i \in 1..Len(t) |->
                      IF t[i].urn = u.urn /\ t[i].year = u.academic_year
                      THEN [t[i] EXCEPT !.overall = u.overall_absence_rate,
                                        !.persistent = u.persistent_absence_rate]
                      ELSE t[i]]
         IN  WalesUpdateMany(t1, Tail(update_data))

WalesOptions ==
    [dry_run : BOOLEAN, update_existing : BOOLEAN, year : {Y2324}]

InitWalesAtt ==
    /\ prog = "wales_att"
    /\ pc = "start"
    /\ opt \in WalesOptions
    /\ csv \in {[absence_key |-> k, rows |-> rs] :
                   k \in BOOLEAN, rs \in SeqsUpTo(WalesCsvRows, MaxRows)}
    /\ idx = 1
    /\ mem = [data |-> <<>>, insert_data |-> <<>>, update_data |-> <<>>]
    /\ cnt = [inserted |-> 0, updated |-> 0]
    /\ db \in {[schools |-> SchoolUrns, absence |-> t] : t \in InitialAbsenceTables}
    /\ tx = db
    /\ aborted = FALSE
    /\ run = 1
    /\ hist = [db0 |-> db, runStart |-> db]

\* main(): read the CSV, look up the existing rows and the schools, split the
\* staged rows, then insert and update and commit (or roll back under --dry-run).
WalesAttMain ==
    /\ prog = "wales_att"
    /\ pc = "start"
    /\ LET data == ReadAttendanceData(csv.rows, csv.absence_key, opt.year)
           urns == {data[i].urn : i \in 1..Len(data)}
           existing_urns == WalesExistingUrns(tx.absence, urns, opt.year)
           insert_data == WalesInsertData(data, existing_urns, tx.schools)
           update_data == WalesUpdateData(data, existing_urns, tx.schools,
                                          opt.update_existing)
           t1 == [tx EXCEPT !.absence =
                     WalesUpdateMany(WalesInsertMany(@, insert_data), update_data)]
       IN  IF data = <<>>
           THEN /\ UNCHANGED <<db, tx, cnt>>
                /\ mem' = [data |-> data, insert_data |-> <<>>, update_data |-> <<>>]
           ELSE /\ mem' = [data |-> data, insert_data |-> insert_data,
                           update_data |-> update_data]
                /\ IF opt.dry_run
                   THEN /\ tx' = RollbackTx(db, tx)
                        /\ UNCHANGED <<db, cnt>>
                   ELSE /\ db' = CommitDb(db, t1, FALSE)
                        /\ tx' = db'
                        /\ cnt' = [inserted |-> Len(insert_data),
                                   updated |-> Len(update_data)]
    /\ pc' = "done"
    /\ hist' = [hist EXCEPT !.runStart = db]
    /\ UNCHANGED <<prog, opt, csv, idx, aborted, run>>

\* The script is started again over the same CSV, with or without
\* --update-existing.
WalesAttRerun ==
    /\ prog = "wales_att"
    /\ pc = "done"
    /\ run < MaxRuns
    /\ run' = run + 1
    /\ pc' = "start"
    /\ \E u \in BOOLEAN : opt' = [opt EXCEPT !.update_existing = u, !.dry_run = FALSE]
    /\ UNCHANGED <<prog, csv, idx, mem, cnt, db, tx, aborted, hist>>

NextWalesAtt == WalesAttMain \/ WalesAttRerun

SpecWalesAtt == InitWalesAtt /\ [][NextWalesAtt]_vars

----------------------------------------------------------------------------
(* update_edubase.py *)

\* Longest edubase CSV.
MaxEdubaseRows == 4

\* update_schools commits after every batch of 100 rows; scaled down so that
\* a batch holds rows before and after a failing one and a second batch starts
\* inside the CSV.
EdubaseBatch == 3

\* A text cell: long marks a text longer than its database column.
Text(str, long) == [kind |-> "text", s |-> str, long |-> long]
NoText == [kind |-> "nan", s |-> "", long |-> FALSE]
NotApplicable == [kind |-> "text", s |-> "Not applicable", long |-> FALSE]

\* clean_phone_number: None for NaN, '' and 'Not applicable'; the text is
\* stripped and never truncated.
CleanPhoneNumber(c) ==
    IF c.kind = "nan" \/ c.s = "" \/ c.s = "Not applicable" THEN NULL
    ELSE Val([s |-> c.s, long |-> c.long])

\* "if website and not website.startswith(('http://', 'https://'))":
\* 'http://' is put in front of an address without protocol.
WithProtocol(s) == IF s = "a.org" THEN "http://a.org" ELSE s

\* clean_website: None for NaN, '' and 'Not applicable'; the protocol added,
\* then truncated to 500 characters, "the database limit".
CleanWebsite(c) ==
    IF c.kind = "nan" \/ c.s = "" \/ c.s = "Not applicable" THEN NULL
    ELSE Val([s |-> WithProtocol(c.s), long |-> FALSE])

\* clean_text_field(text, max_length): truncated to max_length.
CleanTextField(c) ==
    IF c.kind = "nan" \/ c.s = "" \/ c.s = "Not applicable" THEN NULL
    ELSE Val([s |-> c.s, long |-> FALSE])

EdubaseColumns ==
    {"telephone", "website", "head_title", "head_first_name", "head_last_name",
     "head_job_title"}

EdubaseCsvRow(urn, phone, website, title, first, last, job) ==
    [urn |-> urn, phone |-> phone, website |-> website, title |-> title,
     first |-> first, last |-> last, job |-> job]

\* The rows an edubase CSV is built from: schools 1 and 2 with every contact
\* field, school 1 with none, school 2 with a telephone longer than the
\* column, and a URN that uk_schools does not hold.
EdubaseCsvRows ==
    { EdubaseCsvRow(u, Text("020 1", FALSE), Text("a.org", TRUE), Text("Mrs", FALSE),
                    Text("A", FALSE), Text("B", TRUE), Text("Head", FALSE)) : u \in {1, 2, 3} }
    \cup { EdubaseCsvRow(1, NoText, NotApplicable, NoText, NoText, NoText, NoText),
           EdubaseCsvRow(2, Text("020 2", TRUE), NoText, NoText, NoText, NoText, NoText) }

\* The values the script binds to the UPDATE (lines 152-157).
EdubaseValues(r) ==
    [telephone |-> CleanPhoneNumber(r.phone),
     website |-> CleanWebsite(r.website),
     head_title |-> CleanTextField(r.title),
     head_first_name |-> CleanTextField(r.first),
     head_last_name |-> CleanTextField(r.last),
     head_job_title |-> CleanTextField(r.job)]

\* The UPDATE fails with "value too long for type character varying" when a
\* bound value is longer than its column.
EdubaseValueTooLong(v) == \E c \in EdubaseColumns : NotNull(v[c]) /\ Get(v[c]).long

\* UPDATE uk_schools SET telephone = COALESCE(%s, telephone), ... WHERE urn = %s
EdubaseUpdate(t, urn, v) ==
    [u \in DOMAIN t |->
        IF u = urn THEN [c \in EdubaseColumns |-> Coalesce(v[c], t[u][c])]
        ELSE t[u]]

EdubaseKnownSchool == [c \in EdubaseColumns |-> Val([s |-> "old", long |-> FALSE])]
EdubaseBlankSchool == [c \in EdubaseColumns |-> NULL]

InitialEdubaseSchools ==
    [SchoolUrns -> {EdubaseKnownSchool, EdubaseBlankSchool}]

\* What the loop body does with row r, with t the table as the transaction
\* sees it and ab its failed state: a statement in a failed transaction
\* raises InFailedSqlTransaction, a failing statement puts the transaction in
\* the failed state, and the except clause only counts.
EdubaseRowOutcome(r, t, ab) ==
    LET v == EdubaseValues(r)
    IN  IF ab THEN [kind |-> "failed", tab |-> t, aborted |-> TRUE]
        ELSE IF EdubaseValueTooLong(v) THEN [kind |-> "failed", tab |-> t, aborted |-> TRUE]
        ELSE IF r.urn \in DOMAIN t
             THEN [kind |-> "updated", tab |-> EdubaseUpdate(t, r.urn, v), aborted |-> FALSE]
             ELSE [kind |-> "nomatch", tab |-> t, aborted |-> FALSE]

\* The last row of a batch: "for start_idx in range(0, len(df), batch_size)".
EdubaseBatchEnd(i, n) == i % EdubaseBatch = 0 \/ i = n

InitEdubase ==
    /\ prog = "edubase"
    /\ pc = "rows"
    /\ opt = [dry_run |-> FALSE]
    /\ csv \in SeqsUpTo(EdubaseCsvRows, MaxEdubaseRows)
    /\ idx = 1
    /\ mem = <<>>
    /\ cnt = [matched_schools |-> 0, updated_records |-> 0, failed_updates |-> 0]
    /\ db \in {[uk_schools |-> t] : t \in InitialEdubaseSchools}
    /\ tx = db
    /\ aborted = FALSE
    /\ run = 1
    /\ hist = [db0 |-> db, lastKind |-> "none", before |-> db.uk_schools,
               dbErrors |-> 0, expected |-> db.uk_schools]

\* The body of "for idx, row in batch_df.iterrows()" for row idx, followed by
\* the batch commit when the row is the last of its batch.
EdubaseRow ==
    /\ prog = "edubase"
    /\ pc = "rows"
    /\ idx <= Len(csv)
    /\ LET r == csv[idx]
           o == EdubaseRowOutcome(r, tx.uk_schools, aborted)
           t1 == [tx EXCEPT !.uk_schools = o.tab]
           ownError == EdubaseValueTooLong(EdubaseValues(r))
       IN  /\ cnt' = [matched_schools |-> cnt.matched_schools
                                          + (IF o.kind = "updated" THEN 1 ELSE 0),
                      updated_records |-> cnt.updated_records
                                          + (IF o.kind = "updated" THEN 1 ELSE 0),
                      failed_updates |-> cnt.failed_updates
                                          + (IF o.kind = "failed" THEN 1 ELSE 0)]
           /\ IF EdubaseBatchEnd(idx, Len(csv))
              THEN /\ db' = CommitDb(db, t1, o.aborted)
                   /\ tx' = db'
                   /\ aborted' = FALSE
              ELSE /\ db' = db
                   /\ tx' = t1
                   /\ aborted' = o.aborted
           /\ hist' = [hist EXCEPT
                          !.lastKind = o.kind,
                          !.before = tx.uk_schools,
                          !.dbErrors = @ + (IF ownError THEN 1 ELSE 0),
                          !.expected = IF ownError \/ r.urn \notin DOMAIN @ THEN @
                                       ELSE EdubaseUpdate(@, r.urn, EdubaseValues(r))]
    /\ idx' = idx + 1
    /\ UNCHANGED <<prog, pc, opt, csv, mem, run>>

\* The loop over the batches ends; verify_updates and the report only read.
EdubaseFinish ==
    /\ prog = "edubase"
    /\ pc = "rows"
    /\ idx > Len(csv)
    /\ pc' = "done"
    /\ hist' = [hist EXCEPT !.lastKind = "none"]
    /\ UNCHANGED <<prog, opt, csv, idx, mem, cnt, db, tx, aborted, run>>

NextEdubase == EdubaseRow \/ EdubaseFinish

SpecEdubase == InitEdubase /\ [][NextEdubase]_vars

\* The loaders that update existing rows in place.
InitUpdaters == InitScotAbs \/ InitScotCensus \/ InitEdubase
NextUpdaters == NextScotAbs \/ NextScotCensus \/ NextEdubase
SpecUpdaters == InitUpdaters /\ [][NextUpdaters]_vars

----------------------------------------------------------------------------
(* add_scottish_schools.py *)

ScotSchoolCsvRow(seed, name, roll) == [seed |-> seed, name |-> name, roll |-> roll]

\* The rows a schools CSV is built from: three schools with a name the
\* column holds, school 3 with a name longer than the column (the statement
\* that writes it fails in the database), a row without SeedCode, a SeedCode
\* that is no number, a row without School Name.
ScotSchoolCsvRows ==
    { ScotSchoolCsvRow(Num(1), Text("Alpha", FALSE), Num(100)),
      ScotSchoolCsvRow(Num(2), Text("Beta", FALSE), Marker),
      ScotSchoolCsvRow(Num(3), Text("Gamma", FALSE), Num(50)),
      ScotSchoolCsvRow(Num(3), Text("Delta", TRUE), Num(50)),
      ScotSchoolCsvRow(NaN, Text("Alpha", FALSE), Num(10)),
      ScotSchoolCsvRow(Junk, Text("Alpha", FALSE), Num(10)),
      ScotSchoolCsvRow(Num(2), NoText, Num(10)) }

\* A row of uk_schools as add_scottish_schools writes it.
ScotSchoolRow(seed, name, country, total_pupils) ==
    [seed |-> seed, name |-> name, country |-> country, total_pupils |-> total_pupils]

\* SELECT id FROM uk_schools WHERE urn = %s OR seed = %s
ScotSchoolExisting(t, urn, seed_code) ==
    \E u \in DOMAIN t : NotNull(t[u]) /\ (u = urn \/ Get(t[u]).seed = Val(seed_code))

\* UPDATE uk_schools SET name = %s, seed = %s, country = 'Scotland',
\*   total_pupils = %s, ... WHERE urn = %s OR seed = %s
ScotSchoolUpdate(t, urn, seed_code, name, total_pupils) ==
    [u \in DOMAIN t |->
        IF NotNull(t[u]) /\ (u = urn \/ Get(t[u]).seed = Val(seed_code))
        THEN Val(ScotSchoolRow(Val(seed_code), name, "Scotland", total_pupils))
        ELSE t[u]]

\* INSERT INTO uk_schools (...) VALUES (...) ON CONFLICT (urn) DO UPDATE SET ...
\* reached only when no row has the urn, so it inserts.
ScotSchoolInsert(t, urn, seed_code, name, total_pupils) ==
    [t EXCEPT ![urn] = Val(ScotSchoolRow(Val(seed_code), name, "Scotland", total_pupils))]

\* The row makes its UPDATE or INSERT fail in the database: a value the
\* column cannot hold.
ScotSchoolDbError(r) == r.name.long

\* One pass of the loop body over row r, with t the table as the transaction
\* sees it and ab its failed state.  The except clause counts the error and
\* goes on without a rollback, so after a failed statement the SELECT of every
\* later row raises InFailedSqlTransaction.
ScotSchoolRowOutcome(r, t, ab) ==
    IF IsNa(r.seed) \/ r.name.kind = "nan"
    THEN [kind |-> "skipped", tab |-> t, aborted |-> ab]
    ELSE IF IntRaises(r.seed) THEN [kind |-> "raised", tab |-> t, aborted |-> ab]
    ELSE IF ab THEN [kind |-> "raised", tab |-> t, aborted |-> TRUE]
    ELSE LET seed_code == r.seed.v
             urn == seed_code
             total_pupils == SafeInt(r.roll)
         IN  IF ScotSchoolDbError(r) THEN [kind |-> "raised", tab |-> t, aborted |-> TRUE]
             ELSE IF ScotSchoolExisting(t, urn, seed_code)
                  THEN [kind |-> "updated", aborted |-> FALSE,
                        tab |-> ScotSchoolUpdate(t, urn, seed_code, r.name.s, total_pupils)]
                  ELSE [kind |-> "inserted", aborted |-> FALSE,
                        tab |-> ScotSchoolInsert(t, urn, seed_code, r.name.s, total_pupils)]

\* if (inserted + updated) % 100 == 0: conn.commit()
ScotSchoolBatchFull(n) == n % CommitEvery = 0

\* uk_schools before the run: school 1 already loaded as a Scottish school
\* or not, school 2 held as a school of another country or not.
InitialScotSchoolTables ==
    { [u \in CsvSeeds |->
          IF u = 1 /\ a THEN Val(ScotSchoolRow(Val(1), "Old", "Scotland", Val(90)))
          ELSE IF u = 2 /\ b THEN Val(ScotSchoolRow(NULL, "Other", "England", NULL))
          ELSE NULL] : a \in BOOLEAN, b \in BOOLEAN }

InitScotSchools ==
    /\ prog = "scot_schools"
    /\ pc = "rows"
    /\ opt = [dry_run |-> FALSE]
    /\ csv \in SeqsUpTo(ScotSchoolCsvRows, MaxRows)
    /\ idx = 1
    /\ mem = <<>>
    /\ cnt = [inserted |-> 0, updated |-> 0, skipped |-> 0, errors |-> 0]
    /\ db \in {[uk_schools |-> t] : t \in InitialScotSchoolTables}
    /\ tx = db
    /\ aborted = FALSE
    /\ run = 1
    /\ hist = [db0 |-> db, lastKind |-> "none", dbErrorAt |-> 0]

\* The body of "for index, row in df.iterrows()" for row idx, its batch
\* commit and its except clause included.
ScotSchoolsRow ==
    /\ prog = "scot_schools"
    /\ pc = "rows"
    /\ idx <= Len(csv)
    /\ LET r == csv[idx]
           o == ScotSchoolRowOutcome(r, tx.uk_schools, aborted)
           wrote == o.kind \in {"inserted", "updated"}
           inserted == cnt.inserted + (IF o.kind = "inserted" THEN 1 ELSE 0)
           updated == cnt.updated + (IF o.kind = "updated" THEN 1 ELSE 0)
           t1 == [tx EXCEPT !.uk_schools = o.tab]
           commits == wrote /\ ScotSchoolBatchFull(inserted + updated)
       IN  /\ cnt' = [inserted |-> inserted, updated |-> updated,
                      skipped |-> cnt.skipped + (IF o.kind = "skipped" THEN 1 ELSE 0),
                      errors |-> cnt.errors + (IF o.kind = "raised" THEN 1 ELSE 0)]
           /\ db' = IF commits THEN CommitDb(db, t1, o.aborted) ELSE db
           /\ tx' = t1
           /\ aborted' = o.aborted
           /\ hist' = [hist EXCEPT
                          !.lastKind = o.kind,
                          !.dbErrorAt = IF @ = 0 /\ ~aborted /\ o.aborted THEN idx ELSE @]
    /\ idx' = idx + 1
    /\ UNCHANGED <<prog, pc, opt, csv, mem, run>>

\* "Final commit" after the loop.
ScotSchoolsFinish ==
    /\ prog = "scot_schools"
    /\ pc = "rows"
    /\ idx > Len(csv)
    /\ db' = CommitDb(db, tx, aborted)
    /\ tx' = db'
    /\ aborted' = FALSE
    /\ pc' = "done"
    /\ hist' = [hist EXCEPT !.lastKind = "commit"]
    /\ UNCHANGED <<prog, opt, csv, idx, mem, cnt, run>>

NextScotSchools == ScotSchoolsRow \/ ScotSchoolsFinish

SpecScotSchools == InitScotSchools /\ [][NextScotSchools]_vars

----------------------------------------------------------------------------
(* add_scottish_achievement_scores.py *)

\* The update loop commits after every 50 updated schools; scaled down so
\* that a commit falls inside the loop.
AcelCommitEvery == 2

AcelCsvRow(seed, organiser, pct) == [seed |-> seed, organiser |-> organiser, pct |-> pct]

\* The rows an ACEL CSV is built from: literacy and numeracy figures of
\* schools 1 and 2, a suppressed figure, an organiser that is neither, a school
\* that uk_schools does not hold, a row without Seed Code, a Seed Code that
\* is no number.
AcelCsvRows ==
    { AcelCsvRow(Num(1), "Reading", Num(8000)),
      AcelCsvRow(Num(1), "Writing", Num(7001)),
      AcelCsvRow(Num(1), "Numeracy", Num(6000)),
      AcelCsvRow(Num(2), "Numeracy", Num(9000)),
      AcelCsvRow(Num(2), "Reading", Marker),
      AcelCsvRow(Num(2), "Other", Num(5000)),
      AcelCsvRow(Num(3), "Reading", Num(5000)),
      AcelCsvRow(NaN, "Reading", Num(8000)),
      AcelCsvRow(Junk, "Reading", Num(8000)) }

AcelEnglishOrganisers == {"Listening and Talking", "Reading", "Writing"}

AcelNoScores == [english_components |-> <<>>, math_scores |-> <<>>]

RECURSIVE SeqSum(_)
SeqSum(s) == IF s = <<>> THEN 0 ELSE Head(s) + SeqSum(Tail(s))

\* sum(xs) / len(xs), None for an empty list; in hundredths, the fraction
\* of a hundredth dropped.
AcelAverage(xs) == IF xs = <<>> THEN NULL ELSE Val(SeqSum(xs) \div Len(xs))

\* A row of uk_schools as the achievement loader sees it.
AcelSchoolRow(country, english, math) ==
    [country |-> country, english_score |-> english, math_score |-> math]

\* UPDATE uk_schools SET english_score = %s, ..., math_score = %s, ...
\* WHERE (urn = %s OR seed = %s) AND country = 'Scotland'
\* with only the scores that are not None among the SET fields.
AcelUpdate(t, seed_code, english_score, math_score) ==
    [u \in DOMAIN t |->
        IF u = seed_code /\ NotNull(t[u]) /\ Get(t[u]).country = "Scotland"
        THEN Val([Get(t[u]) EXCEPT !.english_score = Coalesce(english_score, @),
                                    !.math_score = Coalesce(math_score, @)])
        ELSE t[u]]

\* cursor.rowcount of that UPDATE.
AcelRowCount(t, seed_code) ==
    IF NotNull(t[seed_code]) /\ Get(t[seed_code]).country = "Scotland" THEN 1 ELSE 0

InitialAcelTables ==
    { [u \in CsvSeeds |->
          IF u = 1 THEN Val(AcelSchoolRow("Scotland", e, NULL))
          ELSE IF u = 2 THEN Val(AcelSchoolRow(c, NULL, NULL))
          ELSE NULL] : e \in {NULL, Val(5500)}, c \in {"Scotland", "England"} }

InitAcel ==
    /\ prog = "acel"
    /\ pc = "run"
    /\ opt = [dry_run |-> FALSE]
    /\ csv \in SeqsUpTo(AcelCsvRows, MaxRows)
    /\ idx = 1
    /\ mem = [order |-> <<>>, school_scores |-> [s \in CsvSeeds |-> AcelNoScores], pos |-> 1]
    /\ cnt = [updated |-> 0, skipped |-> 0]
    /\ db \in {[uk_schools |-> t] : t \in InitialAcelTables}
    /\ tx = db
    /\ aborted = FALSE
    /\ run = 1
    /\ hist = [db0 |-> db, lastKind |-> "none"]

\* The body of the grouping loop (lines 36-78) for row idx.  It has no
\* try/except of its own: the ValueError of int(row['Seed Code']) reaches the
\* except of the function, which rolls back and ends the run.
AcelGroupRow ==
    /\ prog = "acel"
    /\ pc = "run"
    /\ idx <= Len(csv)
    /\ LET r == csv[idx]
           percentage == SafeFloat(r.pct)
       IN  IF IsNa(r.seed)
           THEN /\ hist' = [hist EXCEPT !.lastKind = "skipped"]
                /\ UNCHANGED <<pc, mem, tx>>
           ELSE IF IntRaises(r.seed)
           THEN /\ pc' = "failed"
                /\ tx' = RollbackTx(db, tx)
                /\ hist' = [hist EXCEPT !.lastKind = "raised"]
                /\ UNCHANGED mem
           ELSE IF IsNull(percentage)
           THEN /\ hist' = [hist EXCEPT !.lastKind = "skipped"]
                /\ UNCHANGED <<pc, mem, tx>>
           ELSE LET seed_code == r.seed.v
                    known == \E i \in 1..Len(mem.order) : mem.order[i] = seed_code
                    old == mem.school_scores[seed_code]
                    new == IF r.organiser \in AcelEnglishOrganisers
                           THEN [old EXCEPT !.english_components = Append(@, Get(percentage))]
                           ELSE IF r.organiser = "Numeracy"
                           THEN [old EXCEPT !.math_scores = Append(@, Get(percentage))]
                           ELSE old
                IN  /\ mem' = [mem EXCEPT
                                  !.order = IF known THEN @ ELSE Append(@, seed_code),
                                  !.school_scores[seed_code] = new]
                    /\ hist' = [hist EXCEPT !.lastKind = "grouped"]
                    /\ UNCHANGED <<pc, tx>>
    /\ idx' = idx + 1
    /\ UNCHANGED <<prog, opt, csv, cnt, db, aborted, run>>

\* The body of "for seed_code, data in school_scores.items()" (lines 85-145)
\* for the next school, in insertion order.
AcelUpdateSchool ==
    /\ prog = "acel"
    /\ pc = "run"
    /\ idx > Len(csv)
    /\ mem.pos <= Len(mem.order)
    /\ LET seed_code == mem.order[mem.pos]
           data == mem.school_scores[seed_code]
           english_score == AcelAverage(data.english_components)
           math_score == AcelAverage(data.math_scores)
       IN  IF IsNull(english_score) /\ IsNull(math_score)
           THEN /\ cnt' = [cnt EXCEPT !.skipped = @ + 1]
                /\ hist' = [hist EXCEPT !.lastKind = "skipped"]
                /\ UNCHANGED <<db, tx>>
           ELSE LET t1 == [tx EXCEPT !.uk_schools =
                              AcelUpdate(@, seed_code, english_score, math_score)]
                    updated == cnt.updated + AcelRowCount(tx.uk_schools, seed_code)
                    commits == /\ AcelRowCount(tx.uk_schools, seed_code) > 0
                               /\ updated % AcelCommitEvery = 0
                IN  /\ cnt' = [cnt EXCEPT !.updated = updated]
                    /\ tx' = t1
                    /\ db' = IF commits THEN CommitDb(db, t1, FALSE) ELSE db
                    /\ hist' = [hist EXCEPT !.lastKind = "updated"]
    /\ mem' = [mem EXCEPT !.pos = @ + 1]
    /\ UNCHANGED <<prog, pc, opt, csv, idx, aborted, run>>

\* "Final commit" after the update loop.
AcelFinish ==
    /\ prog = "acel"
    /\ pc = "run"
    /\ idx > Len(csv)
    /\ mem.pos > Len(mem.order)
    /\ db' = CommitDb(db, tx, aborted)
    /\ tx' = db'
    /\ pc' = "done"
    /\ hist' = [hist EXCEPT !.lastKind = "commit"]
    /\ UNCHANGED <<prog, opt, csv, idx, mem, cnt, aborted, run>>

NextAcel == AcelGroupRow \/ AcelUpdateSchool \/ AcelFinish

SpecAcel == InitAcel /\ [][NextAcel]_vars

----------------------------------------------------------------------------
(* import_ni_schools.py *)

\* conn.rollback(): the committed contents afterwards are those of the last
\* commit, whatever the transaction had executed.
RollbackDbKeepsWork(d, t) == t
RollbackDb(d, t) == d

NiSchoolCsvRow(ref, name, enrol) == [ref |-> ref, name |-> name, enrol |-> enrol]

\* The rows an NI schools CSV is built from: school 1 (held by uk_schools)
\* with and without a name, schools 2 and 3, a row without Reference.
NiSchoolCsvRows ==
    { NiSchoolCsvRow(Num(1), Text("One", FALSE), Num(300)),
      NiSchoolCsvRow(Num(1), NoText, Marker),
      NiSchoolCsvRow(Num(2), Text("Two", FALSE), Num(200)),
      NiSchoolCsvRow(Num(3), Text("Three", FALSE), NaN),
      NiSchoolCsvRow(NaN, Text("None", FALSE), Num(100)) }

\* clean: the stripped text, None when empty.
NiClean(c) == IF c.kind = "nan" \/ c.s = "" THEN NULL ELSE Val(c.s)

\* to_int: the first run of digits, None for an empty cell or a marker.
NiToInt(c) == IF c.kind = "num" THEN Val(c.v) ELSE NULL

\* read_ni_csv: the staged tuples, in CSV order; rows without digits in
\* Reference are dropped, and with --only-ref every other Reference.
ReadNiCsv(rows, only_ref) ==
    LET keep == [i \in 1..Len(rows) |->
                    /\ rows[i].ref.kind = "num"
                    /\ (NotNull(only_ref) => rows[i].ref.v = Get(only_ref))]
        kept == SeqFilter(rows, keep)
    IN  [i \in 1..Len(kept) |->
            [urn |-> kept[i].ref.v,
             name |-> NiClean(kept[i].name),
             total_pupils |-> NiToInt(kept[i].enrol)]]

\* INSERT INTO tmp_ni_seed fails on its primary key when a urn is staged twice.
NiSeedDuplicate(staged) ==
    \E i, j \in 1..Len(staged) : i # j /\ staged[i].urn = staged[j].urn

NiSchoolRow(name, total_pupils, country) ==
    [name |-> name, total_pupils |-> total_pupils, country |-> country]

\* The staged tuple of urn u (the staging table holds one per urn).
NiStagedOf(staged, u) == staged[CHOOSE i \in 1..Len(staged) : staged[i].urn = u]

NiStagedUrns(staged) == {staged[i].urn : i \in 1..Len(staged)}

\* insert_sql: INSERT INTO uk_schools (...) SELECT ... FROM tmp_ni_seed t
\* LEFT JOIN uk_schools s ON s.urn = t.urn WHERE s.urn IS NULL
NiInsertSql(t, staged) ==
    [u \in DOMAIN t |->
        IF u \in NiStagedUrns(staged) /\ IsNull(t[u])
        THEN Val(NiSchoolRow(NiStagedOf(staged, u).name,
                             NiStagedOf(staged, u).total_pupils, "Northen Irland"))
        ELSE t[u]]

\* update_sql: UPDATE uk_schools AS s SET name = COALESCE(t.name, s.name), ...,
\* country = 'Northen Irland' FROM tmp_ni_seed t WHERE s.urn = t.urn
NiUpdateSql(t, staged) ==
    [u \in DOMAIN t |->
        IF u \in NiStagedUrns(staged) /\ NotNull(t[u])
        THEN Val(NiSchoolRow(Coalesce(NiStagedOf(staged, u).name, Get(t[u]).name),
                             Coalesce(NiStagedOf(staged, u).total_pupils,
                                      Get(t[u]).total_pupils),
                             "Northen Irland"))
        ELSE t[u]]

InitialNiSchoolTables ==
    { [u \in CsvSeeds |->
          IF u = 1 THEN Val(NiSchoolRow(Val("Old"), p, "England"))
          ELSE IF u = 2 /\ b THEN Val(NiSchoolRow(NULL, NULL, "Northen Irland"))
          ELSE NULL] : p \in {NULL, Val(250)}, b \in BOOLEAN }

InitNiSchools ==
    /\ prog = "ni_schools"
    /\ pc = "start"
    /\ opt \in [dry_run : BOOLEAN, only_ref : {NULL, Val(1)}]
    /\ csv \in SeqsUpTo(NiSchoolCsvRows, MaxRows)
    /\ idx = 1
    /\ mem = <<>>
    /\ cnt = [inserted |-> 0, updated |-> 0]
    /\ db \in {[uk_schools |-> t] : t \in InitialNiSchoolTables}
    /\ tx = db
    /\ aborted = FALSE
    /\ run = 1
    /\ hist = [db0 |-> db, runStart |-> db, executed |-> db]

\* main(): stage the CSV, run insert_sql, then under --dry-run count and roll
\* back, else run insert_sql again and update_sql and commit.  An exception
\* rolls back and is raised again.
NiSchoolsMain ==
    /\ prog = "ni_schools"
    /\ pc = "start"
    /\ LET staged == ReadNiCsv(csv, opt.only_ref)
           t1 == [tx EXCEPT !.uk_schools = NiInsertSql(@, staged)]
           t2 == [t1 EXCEPT !.uk_schools = NiInsertSql(@, staged)]
           t3 == [t2 EXCEPT !.uk_schools = NiUpdateSql(@, staged)]
           urns == NiStagedUrns(staged)
       IN  /\ mem' = staged
           /\ IF staged = <<>>
              THEN /\ pc' = "done"
                   /\ hist' = [hist EXCEPT !.runStart = db, !.executed = tx]
                   /\ UNCHANGED <<db, tx, cnt>>
              ELSE IF NiSeedDuplicate(staged)
              THEN /\ pc' = "failed"
                   /\ db' = RollbackDb(db, tx)
                   /\ tx' = RollbackTx(db, tx)
                   /\ hist' = [hist EXCEPT !.runStart = db, !.executed = tx]
                   /\ UNCHANGED cnt
              ELSE IF opt.dry_run
              THEN /\ pc' = "done"
                   /\ db' = RollbackDb(db, t1)
                   /\ tx' = RollbackTx(db', t1)
                   /\ hist' = [hist EXCEPT !.runStart = db, !.executed = t1]
                   /\ UNCHANGED cnt
              ELSE /\ pc' = "done"
                   /\ db' = CommitDb(db, t3, FALSE)
                   /\ tx' = db'
                   /\ cnt' = [inserted |->
                                 Cardinality({u \in urns : IsNull(t1.uk_schools[u])}),
                              updated |-> Cardinality(urns)]
                   /\ hist' = [hist EXCEPT !.runStart = db, !.executed = t3]
    /\ UNCHANGED <<prog, opt, csv, idx, aborted, run>>

NextNiSchools == NiSchoolsMain

SpecNiSchools == InitNiSchools /\ [][NextNiSchools]_vars

----------------------------------------------------------------------------
(* update_fr_data.py *)

\* Longest 2024 enrolment CSV.
MaxFrRows == 2

\* The UAIs of fr_ecoles, and one that fr_ecoles does not hold.
FrUais == {"A", "B"}
FrUnknownUai == "C"

\* The name|commune|departement key of a school of fr_ecoles.
FrKey(uai) == IF uai = "A" THEN "ka" ELSE "kb"

\* build_lookup: the UAI of a key, None when no school has it.
FrLookup(key) ==
    IF \E u \in FrUais : FrKey(u) = key
    THEN Val(CHOOSE u \in FrUais : FrKey(u) = key)
    ELSE NULL

\* "if only_uai and uai not in only_uai: continue": None and the empty set
\* both let every UAI through.
OnlyUaiSkips(only_uai, uai) ==
    NotNull(only_uai) /\ Get(only_uai) # {} /\ uai \notin Get(only_uai)

FrEcoleColumns == {"lycee_bac_candidates", "girls_total", "boys_total", "students_total"}

FrResultRow(uai, candidates) == [uai |-> uai, candidates |-> candidates]
FrClassRow(uai, girls, boys) == [uai |-> uai, girls |-> girls, boys |-> boys]
FrEnrRow(uai, total, key) == [uai |-> uai, total |-> total, key |-> key]

\* CSV rows; uai "" is an empty cell.
FrResultRows == { FrResultRow("A", Num(120)), FrResultRow("B", Marker), FrResultRow("", Num(5)) }
FrClassRows == { FrClassRow("A", Num(60), Num(0)), FrClassRow("B", Num(0), Num(0)),
                 FrClassRow("B", NaN, Num(40)) }
FrEnrRows == { FrEnrRow("A", Num(400), ""), FrEnrRow("B", Marker, ""),
               FrEnrRow("", Num(300), "kb"), FrEnrRow(FrUnknownUai, Num(50), "") }

\* to_int of update_fr_data.
FrToInt(c) == IF c.kind = "num" THEN Val(c.v) ELSE NULL

\* UPDATE fr_ecoles SET col = COALESCE(%s, col) WHERE identifiant = uai
FrSet(t, uai, col, v) ==
    [u \in DOMAIN t |-> IF u = uai THEN [t[u] EXCEPT ![col] = Coalesce(v, @)] ELSE t[u]]

\* update_lycee_results
RECURSIVE UpdateLyceeResults(_, _, _)
UpdateLyceeResults(t, rows, only_uai) ==
    IF rows = <<>> THEN t
    ELSE LET r == Head(rows)
             t1 == IF r.uai = "" \/ OnlyUaiSkips(only_uai, r.uai) THEN t
                   ELSE FrSet(t, r.uai, "lycee_bac_candidates", FrToInt(r.candidates))
         IN  UpdateLyceeResults(t1, Tail(rows), only_uai)

\* "sum(...) or None" over the girls (boys) columns of a row.
FrSumOrNone(c) == IF c.kind = "num" /\ c.v # 0 THEN Val(c.v) ELSE NULL

\* update_boys_girls_from_lycee_classes
RECURSIVE UpdateBoysGirls(_, _, _)
UpdateBoysGirls(t, rows, only_uai) ==
    IF rows = <<>> THEN t
    ELSE LET r == Head(rows)
             girls == FrSumOrNone(r.girls)
             boys == FrSumOrNone(r.boys)
             t1 == IF \/ r.uai = ""
                      \/ OnlyUaiSkips(only_uai, r.uai)
                      \/ (IsNull(girls) /\ IsNull(boys))
                   THEN t
                   ELSE FrSet(FrSet(t, r.uai, "girls_total", girls), r.uai, "boys_total", boys)
         IN  UpdateBoysGirls(t1, Tail(rows), only_uai)

\* upsert_fr_tables_all: INSERT INTO fr_tables ... ON CONFLICT (uai) DO UPDATE;
\* the table, or "raised" when a row's uai breaks the foreign key to fr_ecoles.
RECURSIVE UpsertFrTablesAll(_, _, _, _)
UpsertFrTablesAll(ft, rows, only_uai, ecoles) ==
    IF rows = <<>> THEN [raised |-> FALSE, tab |-> ft]
    ELSE LET r == Head(rows)
         IN  IF r.uai = "" \/ OnlyUaiSkips(only_uai, r.uai)
             THEN UpsertFrTablesAll(ft, Tail(rows), only_uai, ecoles)
             ELSE IF r.uai \notin ecoles THEN [raised |-> TRUE, tab |-> ft]
             ELSE UpsertFrTablesAll(
                      [ft EXCEPT ![r.uai] = Val([nombre_total_eleves |-> FrToInt(r.total)])],
                      Tail(rows), only_uai, ecoles)

\* update_students_2024: by UAI when the row has one, else by the lookup key.
RECURSIVE UpdateStudents2024(_, _, _)
UpdateStudents2024(t, rows, only_uai) ==
    IF rows = <<>> THEN t
    ELSE LET r == Head(rows)
             total == FrToInt(r.total)
             uai2 == FrLookup(r.key)
             t1 == IF IsNull(total) THEN t
                   ELSE IF r.uai # ""
                   THEN (IF OnlyUaiSkips(only_uai, r.uai) THEN t
                         ELSE FrSet(t, r.uai, "students_total", total))
                   ELSE IF r.key = "" \/ IsNull(uai2) THEN t
                   ELSE IF OnlyUaiSkips(only_uai, Get(uai2)) THEN t
                   ELSE FrSet(t, Get(uai2), "students_total", total)
         IN  UpdateStudents2024(t1, Tail(rows), only_uai)

FrKnownEcole == [c \in FrEcoleColumns |-> Val(7)]
FrBlankEcole == [c \in FrEcoleColumns |-> NULL]

InitialFrTables ==
    { [fr_ecoles |-> [u \in FrUais |-> IF u = "A" THEN e ELSE FrBlankEcole],
       fr_tables |-> [u \in FrUais |-> IF u = "B" THEN ft ELSE NULL]] :
          e \in {FrKnownEcole, FrBlankEcole},
          ft \in {NULL, Val([nombre_total_eleves |-> Val(9)])} }

InitFrData ==
    /\ prog = "fr_data"
    /\ pc = "start"
    /\ opt \in [dry_run : BOOLEAN, only_uai : {NULL, Val({}), Val({"A"})}]
    /\ csv \in [results : SeqsUpTo(FrResultRows, 1),
                lycee : SeqsUpTo(FrClassRows, 1),
                enr : SeqsUpTo(FrEnrRows, MaxFrRows)]
    /\ idx = 1
    /\ mem = <<>>
    /\ cnt = [upserted |-> 0]
    /\ db \in InitialFrTables
    /\ tx = db
    /\ aborted = FALSE
    /\ run = 1
    /\ hist = [db0 |-> db, runStart |-> db, executed |-> db]

\* main(): the four loaders in one transaction, then rollback under
\* --dry-run, commit otherwise; an exception leaves through "finally:
\* conn.close()", which discards the transaction.
FrMain ==
    /\ prog = "fr_data"
    /\ pc = "start"
    /\ LET e1 == UpdateLyceeResults(tx.fr_ecoles, csv.results, opt.only_uai)
           e2 == UpdateBoysGirls(e1, csv.lycee, opt.only_uai)
           up == UpsertFrTablesAll(tx.fr_tables, csv.enr, opt.only_uai, FrUais)
           e3 == UpdateStudents2024(e2, csv.enr, opt.only_uai)
           t1 == IF up.raised THEN [fr_ecoles |-> e2, fr_tables |-> up.tab]
                 ELSE [fr_ecoles |-> e3, fr_tables |-> up.tab]
       IN  /\ hist' = [hist EXCEPT !.runStart = db, !.executed = t1]
           /\ IF up.raised
              THEN /\ pc' = "failed"
                   /\ db' = RollbackDb(db, t1)
              ELSE /\ pc' = "done"
                   /\ db' = IF opt.dry_run THEN RollbackDb(db, t1)
                            ELSE CommitDb(db, t1, FALSE)
    /\ tx' = db'
    /\ UNCHANGED <<prog, opt, csv, idx, mem, cnt, aborted, run>>

NextFrData == FrMain

SpecFrData == InitFrData /\ [][NextFrData]_vars

\* The scripts that take --dry-run.
InitDryRun == InitNiSchools \/ InitWalesAtt \/ InitFrData
NextDryRun == NextNiSchools \/ NextWalesAtt \/ NextFrData
SpecDryRun == InitDryRun /\ [][NextDryRun]_vars

\* The absence loaders.
InitAbsence == InitScotAbs \/ InitWalesAtt
NextAbsence == NextScotAbs \/ NextWalesAtt
SpecAbsence == InitAbsence /\ [][NextAbsence]_vars

----------------------------------------------------------------------------
(* new_upload_wales_data.py *)

\* One entry of the CSV index: the pupils and attendance cells of a school.
WalesUploadCsvVals ==
    { [pupils |-> Num(100), att |-> Num(8026)],
      [pupils |-> NaN, att |-> Num(12000)],
      [pupils |-> Num(200), att |-> NaN] }

\* to_float / to_int of new_upload_wales_data: None for an empty cell.
UploadToNumber(c) == IF c.kind = "num" THEN Val(c.v) ELSE NULL

\* overall = round(max(0.0, min(100.0, 100.0 - att)), 2), in hundredths.
UploadOverall(att) ==
    LET raw == 10000 - att
    IN  IF raw > 10000 THEN 10000 ELSE IF raw < 0 THEN 0 ELSE raw

\* _update_school_row: UPDATE uk_schools SET total_pupils = COALESCE(%s, total_pupils), ...
UpdateSchoolRow(t, urn, csvvals) ==
    [t EXCEPT ![urn] = [@ EXCEPT !.total_pupils =
                           Coalesce(UploadToNumber(csvvals.pupils), @)]]

\* _upsert_absence in the URN schema: UPDATE every row of the urn (overall
\* rate and academic_year), then INSERT when no row has (urn, academic_year).
UpsertAbsence(t, urn, csvvals, academic_year) ==
    LET att == UploadToNumber(csvvals.att)
        overall == Val(UploadOverall(Get(att)))
        t1 == [i \in 1..Len(t) |->
                 IF t[i].urn = urn
                 THEN [t[i] EXCEPT !.overall = overall, !.year = academic_year]
                 ELSE t[i]]
    IN  IF IsNull(att) THEN t
        ELSE IF AbsExisting(t1, urn, academic_year) THEN t1
        ELSE Append(t1, AbsRow(urn, academic_year, overall, NULL, NULL, NULL))

\* uk_schools of the uploader, and the absence table: missing, or one of
\* the tables the other loaders start from.
InitialUploadDbs ==
    LET schools == [u \in SchoolUrns |-> [total_pupils |-> Val(50)]]
    IN  { [uk_schools |-> schools, absence_exists |-> TRUE, absence |-> t] :
              t \in InitialAbsenceTables }
        \cup { [uk_schools |-> schools, absence_exists |-> FALSE, absence |-> <<>>] }

InitWalesUpload ==
    /\ prog = "wales_upload"
    /\ pc = "ensure"
    /\ opt \in [dry_run : BOOLEAN, year : {Y2324}]
    /\ csv \in [SchoolUrns -> {NULL} \cup {Val(v) : v \in WalesUploadCsvVals}]
    /\ idx = 1
    /\ mem = <<>>
    /\ cnt = [processed |-> 0, skipped |-> 0]
    /\ db \in InitialUploadDbs
    /\ tx = db
    /\ aborted = FALSE
    /\ run = 1
    /\ hist = [db0 |-> db, lastKind |-> "none", before |-> db.absence]

\* ensure_absence_table_exists: CREATE TABLE and CREATE INDEX, committed,
\* when the table is missing.  run() calls it before it looks at dry_run.
WalesUploadEnsure ==
    /\ prog = "wales_upload"
    /\ pc = "ensure"
    /\ LET t1 == [tx EXCEPT !.absence_exists = TRUE]
       IN  IF tx.absence_exists
           THEN UNCHANGED <<db, tx>>
           ELSE /\ db' = CommitDb(db, t1, FALSE)
                /\ tx' = db'
    /\ pc' = "rows"
    /\ hist' = [hist EXCEPT !.lastKind = "ensured"]
    /\ UNCHANGED <<prog, opt, csv, idx, mem, cnt, aborted, run>>

\* The body of "for (school_id, urn, ...) in schools" for the school with
\* urn idx (the SELECT orders by urn), commit included.
WalesUploadSchool ==
    /\ prog = "wales_upload"
    /\ pc = "rows"
    /\ idx \in SchoolUrns
    /\ IF IsNull(csv[idx])
       THEN /\ cnt' = [cnt EXCEPT !.skipped = @ + 1]
            /\ hist' = [hist EXCEPT !.lastKind = "skipped"]
            /\ UNCHANGED <<db, tx>>
       ELSE IF opt.dry_run
       THEN /\ cnt' = [cnt EXCEPT !.processed = @ + 1]
            /\ hist' = [hist EXCEPT !.lastKind = "dry"]
            /\ UNCHANGED <<db, tx>>
       ELSE LET csvvals == Get(csv[idx])
                t1 == [tx EXCEPT
                          !.uk_schools = UpdateSchoolRow(@, idx, csvvals),
                          !.absence = UpsertAbsence(@, idx, csvvals, opt.year)]
            IN  /\ db' = CommitDb(db, t1, FALSE)
                /\ tx' = db'
                /\ cnt' = [cnt EXCEPT !.processed = @ + 1]
                /\ hist' = [hist EXCEPT !.lastKind = "written", !.before = tx.absence]
    /\ idx' = idx + 1
    /\ UNCHANGED <<prog, pc, opt, csv, mem, aborted, run>>

\* The loop is over; close() ends the connection.
WalesUploadFinish ==
    /\ prog = "wales_upload"
    /\ pc = "rows"
    /\ idx \notin SchoolUrns
    /\ pc' = "done"
    /\ tx' = RollbackTx(db, tx)
    /\ hist' = [hist EXCEPT !.lastKind = "closed"]
    /\ UNCHANGED <<prog, opt, csv, idx, mem, cnt, db, aborted, run>>

NextWalesUpload == WalesUploadEnsure \/ WalesUploadSchool \/ WalesUploadFinish

SpecWalesUpload == InitWalesUpload /\ [][NextWalesUpload]_vars

----------------------------------------------------------------------------
(* geolocate.py *)

\* Schools in uk_schools.
MaxGeoSchools == 4

\* process_schools(batch_size = 100), scaled down so that a run takes more
\* than one batch.
GeoBatchSize == 2

GeoIds == 1..MaxGeoSchools

\* Schools with an odd id have a postcode.
GeoHasPostcode(id) == id % 2 = 1

\* WHERE latitude IS NULL OR longitude IS NULL ORDER BY id
GeoWithoutCoords(t) ==
    LET keep == [i \in GeoIds |-> IsNull(t[i].latitude) \/ IsNull(t[i].longitude)]
    IN  SeqFilter([i \in GeoIds |-> i], keep)

\* ... LIMIT batch_size OFFSET offset
GeoPage(t, batch_size, offset) ==
    LET all == GeoWithoutCoords(t)
        last == IF offset + batch_size < Len(all) THEN offset + batch_size ELSE Len(all)
    IN  IF offset >= Len(all) THEN <<>> ELSE SubSeq(all, offset + 1, last)

\* The addresses process_schools tries for a school, in order (lines 252-272).
GeoPlan(id) ==
    IF GeoHasPostcode(id)
    THEN <<"address with name", "address without name", "name and postcode", "postcode">>
    ELSE <<"address with name", "address without name">>

\* "if 49.5 <= lat <= 61.0 and -8.0 <= lng <= 2.0", in hundredths of a degree.
InUkBoundsAlways(lat, lng) == TRUE
InUkBounds(lat, lng) == 4950 <= lat /\ lat <= 6100 /\ 0 - 800 <= lng /\ lng <= 200

\* geocode_address: the coordinates of a response with status OK that lies
\* in the UK bounds, None for every other response or exception.
GeocodeAddress(response) ==
    IF response.status = "OK" /\ InUkBounds(response.lat, response.lng)
    THEN Val([lat |-> response.lat, lng |-> response.lng])
    ELSE NULL

\* The responses the geocoding service may give.
GeoResponses ==
    { [status |-> "OK", lat |-> 4950, lng |-> 0 - 800],
      [status |-> "OK", lat |-> 6100, lng |-> 200],
      [status |-> "OK", lat |-> 4949, lng |-> 0 - 800],
      [status |-> "OK", lat |-> 6100, lng |-> 201],
      [status |-> "ZERO_RESULTS", lat |-> 0, lng |-> 0],
      [status |-> "OVER_QUERY_LIMIT", lat |-> 0, lng |-> 0] }

\* The responses geocode_address turns into coordinates.
GeoGoodResponses == {r \in GeoResponses : NotNull(GeocodeAddress(r))}

\* The requests made for a school when the first n - 1 addresses get the
\* response bad and address n gets the response good (n = 0: every address
\* gets bad): process_schools stops at the first address that gives
\* coordinates.
GeoRequestsMade(id, n, bad, good) ==
    LET plan == GeoPlan(id)
        k == IF n = 0 THEN Len(plan) ELSE n
    IN  [i \in 1..k |-> [address |-> plan[i],
                         response |-> IF n # 0 /\ i = n THEN good ELSE bad]]

InitialGeoSchools ==
    [GeoIds -> { [latitude |-> NULL, longitude |-> NULL],
                 [latitude |-> Val(5100), longitude |-> NULL],
                 [latitude |-> Val(5100), longitude |-> Val(0 - 100)] }]

InitGeo ==
    /\ prog = "geolocate"
    /\ pc = "fetch"
    /\ opt = [dry_run |-> FALSE]
    /\ csv = <<>>
    /\ idx = 0
    /\ db \in {[uk_schools |-> t] : t \in InitialGeoSchools}
    /\ mem = [total_count |-> Len(GeoWithoutCoords(db.uk_schools)), schools |-> <<>>, pos |-> 1]
    /\ cnt = [success_count |-> 0, error_count |-> 0]
    /\ tx = db
    /\ aborted = FALSE
    /\ run = 1
    /\ hist = [db0 |-> db, attempts |-> [i \in GeoIds |-> 0], requests |-> <<>>,
               lastId |-> 0]

\* The head of "while offset < total_count": the SELECT of the next page of
\* schools that still have no coordinates; idx is offset.
GeoFetchBatch ==
    /\ prog = "geolocate"
    /\ pc = "fetch"
    /\ LET schools == GeoPage(tx.uk_schools, GeoBatchSize, idx)
       IN  IF idx >= mem.total_count \/ schools = <<>>
           THEN /\ pc' = "done"
                /\ UNCHANGED mem
           ELSE /\ pc' = "batch"
                /\ mem' = [mem EXCEPT !.schools = schools, !.pos = 1]
    /\ hist' = [hist EXCEPT !.requests = <<>>, !.lastId = 0]
    /\ UNCHANGED <<prog, opt, csv, idx, cnt, db, tx, aborted, run>>

\* The body of "for school in schools": the geocoding requests and the UPDATE.
GeoSchool ==
    /\ prog = "geolocate"
    /\ pc = "batch"
    /\ mem.pos <= Len(mem.schools)
    /\ LET id == mem.schools[mem.pos]
       IN  \E n \in 0..Len(GeoPlan(id)) : \E bad \in GeoResponses \ GeoGoodResponses :
           \E good \in GeoGoodResponses :
              /\ LET made == GeoRequestsMade(id, n, bad, good)
                     coords == GeocodeAddress(made[Len(made)].response)
                 IN  /\ IF NotNull(coords)
                        THEN /\ tx' = [tx EXCEPT !.uk_schools[id] =
                                          [latitude |-> Val(Get(coords).lat),
                                           longitude |-> Val(Get(coords).lng)]]
                             /\ cnt' = [cnt EXCEPT !.success_count = @ + 1]
                        ELSE /\ cnt' = [cnt EXCEPT !.error_count = @ + 1]
                             /\ UNCHANGED tx
                     /\ hist' = [hist EXCEPT !.attempts[id] = @ + 1,
                                             !.requests = made, !.lastId = id]
    /\ mem' = [mem EXCEPT !.pos = @ + 1]
    /\ UNCHANGED <<prog, pc, opt, csv, idx, db, aborted, run>>

\* "Commit batch" and "offset += batch_size".
GeoCommit ==
    /\ prog = "geolocate"
    /\ pc = "batch"
    /\ mem.pos > Len(mem.schools)
    /\ db' = CommitDb(db, tx, aborted)
    /\ tx' = db'
    /\ idx' = idx + GeoBatchSize
    /\ pc' = "fetch"
    /\ hist' = [hist EXCEPT !.requests = <<>>, !.lastId = 0]
    /\ UNCHANGED <<prog, opt, csv, mem, cnt, aborted, run>>

NextGeo == GeoFetchBatch \/ GeoSchool \/ GeoCommit

SpecGeo == InitGeo /\ [][NextGeo]_vars

----------------------------------------------------------------------------
(* upload_fr_ecoles.py *)

\* Longest french_school.csv.
MaxUploadRows == 4

\* Largest --batch.
MaxUploadBatch == 3

\* clean_text: the stripped text, None when nothing is left.
CleanText(s) ==
    IF s = "" \/ s = "  " THEN NULL
    ELSE IF s = " A " THEN Val("A")
    ELSE Val(s)

\* The rows a french_school.csv is built from: identifiers A and B with two
\* names each, A written with blanks around it, a row without identifier.
FrSchoolCsvRows ==
    { [id |-> i, nom |-> n] : i \in {"A", "B"}, n \in {"n1", "n2"} }
    \cup { [id |-> " A ", nom |-> "n3"], [id |-> "  ", nom |-> "n1"] }

\* row_to_values: the tuple of cleaned values; r[0] is the identifier.
RowToValues(raw) == [id |-> CleanText(raw.id), nom |-> CleanText(raw.nom)]

\* "unique[row[0]] = row" over the batch: one row per identifier, in the
\* order of first occurrence, each with the values of its last occurrence.
DedupeKeepsFirst(batch) ==
    SeqFilter(batch, [i \in 1..Len(batch) |->
                         \A j \in 1..(i - 1) : batch[j].id # batch[i].id])
Dedupe(batch) ==
    LET firsts == SeqFilter(batch, [i \in 1..Len(batch) |->
                                       \A j \in 1..(i - 1) : batch[j].id # batch[i].id])
        lastOf(id) == batch[CHOOSE i \in 1..Len(batch) :
                               /\ batch[i].id = id
                               /\ \A j \in (i + 1)..Len(batch) : batch[j].id # id]
    IN  [k \in 1..Len(firsts) |-> lastOf(firsts[k].id)]

\* execute_values of INSERT ... ON CONFLICT (identifiant_de_l_etablissement)
\* DO UPDATE SET col = EXCLUDED.col: one statement; it raises "ON CONFLICT DO
\* UPDATE command cannot affect row a second time" when two of its rows share
\* the identifier.
ExecuteUpsert(t, values) ==
    IF \E i, j \in 1..Len(values) : i # j /\ values[i].id = values[j].id
    THEN [raised |-> TRUE, tab |-> t]
    ELSE [raised |-> FALSE,
          tab |-> [u \in DOMAIN t |->
                     IF \E i \in 1..Len(values) : values[i].id = Val(u)
                     THEN Val((CHOOSE v \in {values[i] : i \in 1..Len(values)} :
                                  v.id = Val(u)).nom)
                     ELSE t[u]]]

\* The loop of upsert_rows over the remaining rows with the batch collected
\* so far, and the flush of the last partial batch.
RECURSIVE UpsertLoop(_, _, _, _)
UpsertLoop(t, rows, batch, batch_size) ==
    IF rows = <<>>
    THEN (IF batch = <<>> THEN [raised |-> FALSE, tab |-> t]
          ELSE ExecuteUpsert(t, Dedupe(batch)))
    ELSE LET r == Head(rows)
         IN  IF IsNull(r.id) THEN UpsertLoop(t, Tail(rows), batch, batch_size)
             ELSE IF Len(batch) + 1 >= batch_size
             THEN LET x == ExecuteUpsert(t, Dedupe(Append(batch, r)))
                  IN  IF x.raised THEN x
                      ELSE UpsertLoop(x.tab, Tail(rows), <<>>, batch_size)
             ELSE UpsertLoop(t, Tail(rows), Append(batch, r), batch_size)

\* load_csv_rows: row_to_values of every CSV row.
LoadCsvRows(raw) == [i \in 1..Len(raw) |-> RowToValues(raw[i])]

InitFrUpload ==
    /\ prog = "fr_upload"
    /\ pc = "start"
    /\ opt \in [dry_run : {FALSE}, batch : 1..MaxUploadBatch]
    /\ csv \in SeqsUpTo(FrSchoolCsvRows, MaxUploadRows)
    /\ idx = 1
    /\ mem = <<>>
    /\ cnt = [total |-> 0]
    /\ db \in {[fr_ecoles |-> [u \in {"A", "B", "C"} |->
                                  IF u = "C" \/ (u = "A" /\ a) THEN Val(Val("old")) ELSE NULL]] :
                  a \in BOOLEAN}
    /\ tx = db
    /\ aborted = FALSE
    /\ run = 1
    /\ hist = [db0 |-> db]

\* upsert_rows: every batch in one transaction, committed at the end; an
\* exception rolls everything back.
FrUploadMain ==
    /\ prog = "fr_upload"
    /\ pc = "start"
    /\ LET x == UpsertLoop(tx.fr_ecoles, LoadCsvRows(csv), <<>>, opt.batch)
       IN  IF x.raised
           THEN /\ pc' = "failed"
                /\ db' = RollbackDb(db, tx)
           ELSE /\ pc' = "done"
                /\ db' = CommitDb(db, [tx EXCEPT !.fr_ecoles = x.tab], FALSE)
    /\ tx' = db'
    /\ UNCHANGED <<prog, opt, csv, idx, mem, cnt, aborted, run, hist>>

NextFrUpload == FrUploadMain

SpecFrUpload == InitFrUpload /\ [][NextFrUpload]_vars

----------------------------------------------------------------------------
(* import_wales_schools.py *)

\* Longest Wales schools CSV.
MaxWalesSchoolRows == 3

\* Pupil numbers are kept in thousands, so that a number beyond the range of
\* an INTEGER column (2^31 - 1) can be written.
PgIntegerMaxK == 2147483647 \div 1000

WalesSchoolUrns == {1, 2, 3}

WalesSchoolCsvRow(number, name, pupils) ==
    [number |-> number, name |-> name, pupils |-> pupils]

\* The rows a Wales schools CSV is built from: schools 1, 2 and 3 with and
\* without a pupil number the INTEGER column rejects, a row without School
\* Number and one with School Number 0.
WalesSchoolCsvRows ==
    { WalesSchoolCsvRow(Num(1), Text("n1", FALSE), Num(1)),
      WalesSchoolCsvRow(Num(1), Text("n2", TRUE), Num(3000000)),
      WalesSchoolCsvRow(Num(2), Text("n1", FALSE), Num(1)),
      WalesSchoolCsvRow(Num(2), NoText, Num(3000000)),
      WalesSchoolCsvRow(Num(3), NotApplicable, NaN),
      WalesSchoolCsvRow(Num(3), Text("n2", FALSE), Num(3000000)),
      WalesSchoolCsvRow(NaN, Text("n1", FALSE), Num(1)),
      WalesSchoolCsvRow(Num(0), Text("n1", FALSE), Num(1)) }

\* clean_integer: None for NaN, '' and text that is no number, else
\* int(float(value)).
CleanInteger(c) == IF c.kind = "num" THEN Val(c.v) ELSE NULL

\* clean_text_field(text, max_length): None for NaN, '' and 'Not
\* applicable'; the stripped text cut to max_length.
WalesCleanTextField(c) ==
    IF c.kind = "nan" \/ c.s = "" \/ c.s = "Not applicable" THEN NULL
    ELSE Val([s |-> c.s, long |-> FALSE])

\* school_data of a CSV row.
WalesSchoolData(row) ==
    [urn |-> CleanInteger(row.number),
     name |-> WalesCleanTextField(row.name),
     establishment_status |-> Val("Open"),
     total_pupils |-> CleanInteger(row.pupils)]

\* The server rejects a statement that stores a number beyond the INTEGER
\* range.
WalesSchoolDbError(data) ==
    NotNull(data.total_pupils) /\ Get(data.total_pupils) > PgIntegerMaxK

\* update_school: "field = COALESCE(%s, field)" for the non-null fields,
\* country = 'wales'. The exception of a failed statement is logged and
\* not raised again; the transaction stays aborted.
UpdateSchool(t, urn, data) ==
    IF WalesSchoolDbError(data) THEN [raised |-> TRUE, tab |-> t]
    ELSE [raised |-> FALSE,
          tab |-> [t EXCEPT ![urn] =
                     Val([name |-> Coalesce(data.name, Get(t[urn]).name),
                          establishment_status |-> data.establishment_status,
                          total_pupils |-> Coalesce(data.total_pupils, Get(t[urn]).total_pupils),
                          country |-> Val("wales")])]]

\* insert_school: INSERT of the non-null fields with country = 'wales'; the
\* exception of a failed statement is logged and not raised again.
InsertSchool(t, urn, data) ==
    IF WalesSchoolDbError(data) THEN [raised |-> TRUE, tab |-> t]
    ELSE [raised |-> FALSE,
          tab |-> [t EXCEPT ![urn] =
                     Val([name |-> data.name,
                          establishment_status |-> data.establishment_status,
                          total_pupils |-> data.total_pupils,
                          country |-> Val("wales")])]]

\* "elif not self.update_only": a school uk_schools does not hold is
\* inserted unless --update-only was given.
InsertAlways(update_only) == TRUE
InsertAllowed(update_only) == ~update_only

\* The statement process_schools runs for a row with a valid URN.
WalesSchoolStatement(t, urn, data, update_only) ==
    IF NotNull(t[urn]) THEN UpdateSchool(t, urn, data)
    ELSE IF InsertAllowed(update_only) THEN InsertSchool(t, urn, data)
    ELSE [raised |-> FALSE, tab |-> t]

\* "if not urn": the row has no usable School Number.
WalesSchoolNoUrn(data) == IsNull(data.urn) \/ Get(data.urn) = 0

InitialWalesSchoolTables ==
    { [u \in WalesSchoolUrns |->
          IF u = 1 \/ (u = 2 /\ two)
          THEN Val([name |-> Val([s |-> "old", long |-> FALSE]),
                    establishment_status |-> Val("Closed"),
                    total_pupils |-> IF two THEN Val(2) ELSE NULL,
                    country |-> Val("wales")])
          ELSE NULL] : two \in BOOLEAN }

InitWalesSchools ==
    /\ prog = "wales_schools"
    /\ pc = "rows"
    /\ opt \in [update_only : BOOLEAN]
    /\ csv \in SeqsUpTo(WalesSchoolCsvRows, MaxWalesSchoolRows)
    /\ idx = 1
    /\ mem = <<>>
    /\ cnt = [failed_updates |-> 0]
    /\ db \in {[uk_schools |-> t] : t \in InitialWalesSchoolTables}
    /\ tx = db
    /\ aborted = FALSE
    /\ run = 1
    /\ hist = [db0 |-> db]

\* One iteration of process_schools: SELECT, UPDATE or INSERT, commit; an
\* exception that reaches the loop rolls the transaction back.
WalesSchoolsRow ==
    /\ prog = "wales_schools"
    /\ pc = "rows"
    /\ idx <= Len(csv)
    /\ LET data == WalesSchoolData(csv[idx])
       IN  IF WalesSchoolNoUrn(data)
           THEN UNCHANGED <<db, tx, aborted, cnt>>
           ELSE IF aborted
           THEN /\ db' = RollbackDb(db, tx)
                /\ tx' = db'
                /\ aborted' = FALSE
                /\ cnt' = [cnt EXCEPT !.failed_updates = @ + 1]
           ELSE LET x == WalesSchoolStatement(tx.uk_schools, Get(data.urn), data,
                                              opt.update_only)
                IN  /\ db' = CommitDb(db, [tx EXCEPT !.uk_schools = x.tab], x.raised)
                    /\ tx' = db'
                    /\ aborted' = FALSE
                    /\ cnt' = [cnt EXCEPT !.failed_updates =
                                  IF x.raised THEN @ + 1 ELSE @]
    /\ idx' = idx + 1
    /\ UNCHANGED <<prog, pc, opt, csv, mem, run, hist>>

\* run: verify_updates, the summary report, close.
WalesSchoolsFinish ==
    /\ prog = "wales_schools"
    /\ pc = "rows"
    /\ idx > Len(csv)
    /\ pc' = "done"
    /\ db' = RollbackDb(db, tx)
    /\ tx' = db'
    /\ UNCHANGED <<prog, opt, csv, idx, mem, cnt, aborted, run, hist>>

NextWalesSchools == WalesSchoolsRow \/ WalesSchoolsFinish

SpecWalesSchools == InitWalesSchools /\ [][NextWalesSchools]_vars

----------------------------------------------------------------------------
(* update_scottish_addresses.py *)

\* Longest ScotlandGSchoolRoll2023.csv.
MaxAddrRows == 3

\* The model's "updated % 100 == 0": a commit every AddrCommitEvery updates.
AddrCommitEvery == 2

AddrIds == {1, 2}

AddrCsvRow(seed, street, lat, la) ==
    [SeedCode |-> seed, AddressLine1 |-> street, Latitude |-> lat, LACode |-> la]

\* The rows the CSV is built from: schools 1 and 2 with and without address,
\* coordinates and LA code, an LA code like 'S12000029', a latitude that is
\* no number, a row without SeedCode and one whose SeedCode is no number.
AddrCsvRows ==
    { AddrCsvRow(Num(1), Val(" new "), Num(56), Num(7)),
      AddrCsvRow(Num(1), NULL, NaN, Junk),
      AddrCsvRow(Num(2), Val("new"), NaN, NaN),
      AddrCsvRow(Num(2), NULL, Num(57), Num(8)),
      AddrCsvRow(Num(2), Val("new"), Junk, NaN),
      AddrCsvRow(NaN, Val("new"), Num(56), Num(7)),
      AddrCsvRow(Junk, Val("new"), Num(56), Num(7)) }

\* str(value).strip()
AddrStrip(s) == IF s = " new " THEN "new" ELSE s

\* "field = COALESCE(field, %s)": the stored value unless it is NULL.
AddrSetSwapped(field, value) == Coalesce(value, field)
AddrSet(field, value) == Coalesce(field, value)

\* The fields of one row that the UPDATE statement names: a CSV cell that
\* is NaN, or an LACode that int() rejects, adds no field.
AddrUpdateFields(row) ==
    [street |-> IF NotNull(row.AddressLine1)
                THEN Val(AddrStrip(Get(row.AddressLine1))) ELSE NULL,
     latitude |-> IF IsNa(row.Latitude) THEN NULL ELSE Val(row.Latitude.v),
     la_code |-> IF row.LACode.kind = "num" THEN Val(row.LACode.v) ELSE NULL]

\* int(row['SeedCode']) or float(row['Latitude']) raises.
AddrRowRaises(row) ==
    IntRaises(row.SeedCode) \/ (~IsNa(row.Latitude) /\ row.Latitude.kind # "num")

\* "WHERE (urn = %s OR seed = %s) AND country = 'Scotland'"
AddrMatches(s, seed_code) ==
    (s.urn = seed_code \/ s.seed = Val(seed_code)) /\ s.country = "Scotland"

\* The UPDATE statement: every named field keeps its value unless it is
\* NULL, updated_at is set.
AddrUpdate(t, seed_code, f) ==
    [i \in DOMAIN t |->
        IF AddrMatches(t[i], seed_code)
        THEN [t[i] EXCEPT !.street = IF NotNull(f.street) THEN AddrSet(@, f.street) ELSE @,
                          !.latitude = IF NotNull(f.latitude) THEN AddrSet(@, f.latitude) ELSE @,
                          !.la_code = IF NotNull(f.la_code) THEN AddrSet(@, f.la_code) ELSE @,
                          !.updated_at = "now"]
        ELSE t[i]]

AddrHasFields(f) == NotNull(f.street) \/ NotNull(f.latitude) \/ NotNull(f.la_code)

AddrSchool(urn, seed, country, street, lat, la) ==
    [urn |-> urn, seed |-> seed, country |-> country, street |-> street,
     latitude |-> lat, la_code |-> la, updated_at |-> "old"]

\* uk_schools before the run: school 1 is Scottish with urn 1; school 2 is
\* Scottish with seed 2 and another urn, or an English school with urn 2.
InitialAddrSchools ==
    { [i \in AddrIds |->
          IF i = 1 THEN AddrSchool(1, NULL, "Scotland", s, l, NULL)
          ELSE IF scot THEN AddrSchool(9, Val(2), "Scotland", NULL, Val(50), Val(3))
          ELSE AddrSchool(2, NULL, "England", NULL, NULL, NULL)] :
        s \in {NULL, Val("old"), Val("")}, l \in {NULL, Val(50)}, scot \in BOOLEAN }

InitScotAddr ==
    /\ prog = "scot_addr"
    /\ pc = "rows"
    /\ opt = <<>>
    /\ csv \in SeqsUpTo(AddrCsvRows, MaxAddrRows)
    /\ idx = 1
    /\ mem = <<>>
    /\ cnt = [updated |-> 0, skipped |-> 0, not_found |-> 0]
    /\ db \in {[uk_schools |-> t] : t \in InitialAddrSchools}
    /\ tx = db
    /\ aborted = FALSE
    /\ run = 1
    /\ hist = [db0 |-> db]

\* One iteration of the loop of update_scottish_school_addresses.
ScotAddrRow ==
    /\ prog = "scot_addr"
    /\ pc = "rows"
    /\ idx <= Len(csv)
    /\ LET row == csv[idx]
           f == AddrUpdateFields(row)
       IN  IF IsNa(row.SeedCode)
           THEN /\ cnt' = [cnt EXCEPT !.skipped = @ + 1]
                /\ UNCHANGED <<db, tx>>
           ELSE IF AddrRowRaises(row)
           THEN /\ cnt' = [cnt EXCEPT !.skipped = @ + 1]
                /\ tx' = RollbackTx(db, tx)
                /\ UNCHANGED db
           ELSE LET t1 == IF AddrHasFields(f)
                          THEN AddrUpdate(tx.uk_schools, row.SeedCode.v, f)
                          ELSE tx.uk_schools
                    found == \E i \in AddrIds : AddrMatches(tx.uk_schools[i], row.SeedCode.v)
                    upd == IF AddrHasFields(f) /\ found THEN cnt.updated + 1 ELSE cnt.updated
                    commit == upd % AddrCommitEvery = 0 /\ upd > 0
                IN  /\ cnt' = [cnt EXCEPT !.updated = upd,
                                          !.not_found = IF AddrHasFields(f) /\ ~found
                                                        THEN @ + 1 ELSE @]
                    /\ tx' = [tx EXCEPT !.uk_schools = t1]
                    /\ db' = IF commit THEN CommitDb(db, tx', FALSE) ELSE db
    /\ idx' = idx + 1
    /\ UNCHANGED <<prog, pc, opt, csv, mem, aborted, run, hist>>

\* The final commit, the statistics and close.
ScotAddrFinish ==
    /\ prog = "scot_addr"
    /\ pc = "rows"
    /\ idx > Len(csv)
    /\ pc' = "done"
    /\ db' = CommitDb(db, tx, FALSE)
    /\ tx' = db'
    /\ UNCHANGED <<prog, opt, csv, idx, mem, cnt, aborted, run, hist>>

NextScotAddr == ScotAddrRow \/ ScotAddrFinish

SpecScotAddr == InitScotAddr /\ [][NextScotAddr]_vars

----------------------------------------------------------------------------
(* update_wales_schools.py *)

\* Longest wales_schools.csv.
MaxScrapeRows == 3

\* Largest --batch-size.
MaxScrapeBatch == 2

ScrapeCsvRow(name, fsm, ptr) ==
    [name |-> name, fsm_3yr_pct |-> fsm, pupil_teacher_ratio |-> ptr]

\* The rows of the input file: with and without the two scraped figures.
ScrapeCsvRows ==
    { ScrapeCsvRow("s1", NaN, NaN), ScrapeCsvRow("s1", Num(5), NaN),
      ScrapeCsvRow("s2", NaN, Num(9)), ScrapeCsvRow("s2", Num(5), Num(9)) }

\* What scrape_school returns: nothing after an error, or the figures the
\* page shows.
ScrapeResults ==
    { [fsm_3yr_pct |-> f, pupil_teacher_ratio |-> p] : f \in {NULL, Val(11)}, p \in {NULL, Val(22)} }

\* pd.read_csv: an empty cell is NaN, a number its value.
ScrapeReadCsv(rows) ==
    [i \in 1..Len(rows) |->
        [name |-> rows[i].name,
         fsm_3yr_pct |-> ToFloat(rows[i].fsm_3yr_pct),
         pupil_teacher_ratio |-> ToFloat(rows[i].pupil_teacher_ratio)]]

\* df.to_csv(output_file, index=False): NaN is written as an empty cell.
ScrapeToCsv(df) ==
    [i \in 1..Len(df) |->
        ScrapeCsvRow(df[i].name,
                     IF IsNull(df[i].fsm_3yr_pct) THEN NaN ELSE Num(Get(df[i].fsm_3yr_pct)),
                     IF IsNull(df[i].pupil_teacher_ratio) THEN NaN
                     ELSE Num(Get(df[i].pupil_teacher_ratio)))]

\* "start_idx = start_from if start_from else 0"
ScrapeStartIdx(start_from) ==
    IF NotNull(start_from) /\ Get(start_from) # 0 THEN Get(start_from) ELSE 0

\* "end_idx = min(start_idx + limit, len(df)) if limit else len(df)": a
\* limit of None and a limit of 0 both give len(df).
ScrapeEndIdx(start_idx, limit, n) ==
    IF NotNull(limit) /\ Get(limit) # 0
    THEN (IF start_idx + Get(limit) < n THEN start_idx + Get(limit) ELSE n)
    ELSE n

\* "if field in data: df.loc[idx, field] = data[field]"
ScrapeUpdateRow(r, data) ==
    [r EXCEPT !.fsm_3yr_pct = IF NotNull(data.fsm_3yr_pct) THEN data.fsm_3yr_pct ELSE @,
              !.pupil_teacher_ratio = IF NotNull(data.pupil_teacher_ratio)
                                      THEN data.pupil_teacher_ratio ELSE @]

InitScrape ==
    /\ prog = "wales_scrape"
    /\ pc = "loop"
    /\ opt \in [limit : {NULL} \cup {Val(k) : k \in 0..MaxScrapeRows},
                start_from : {NULL} \cup {Val(k) : k \in 0..MaxScrapeRows},
                batch_size : 1..MaxScrapeBatch]
    /\ csv \in SeqsUpTo(ScrapeCsvRows, MaxScrapeRows)
    /\ idx = ScrapeStartIdx(opt.start_from)
    /\ mem = [df |-> ScrapeReadCsv(csv), output |-> NULL, processed_count |-> 0]
    /\ cnt = [saves |-> 0]
    /\ db = <<>>
    /\ tx = <<>>
    /\ aborted = FALSE
    /\ run = 1
    /\ hist = [scraped |-> {}]

\* One iteration of "for idx in range(start_idx, end_idx)"; idx counts
\* from 0 as in the code, the rows of df from 1.
ScrapeSchool ==
    /\ prog = "wales_scrape"
    /\ pc = "loop"
    /\ idx < ScrapeEndIdx(ScrapeStartIdx(opt.start_from), opt.limit, Len(mem.df))
    /\ IF NotNull(mem.df[idx + 1].fsm_3yr_pct)
       THEN UNCHANGED <<mem, cnt, hist>>
       ELSE \E data \in ScrapeResults :
               LET df1 == [mem.df EXCEPT ![idx + 1] = ScrapeUpdateRow(@, data)]
                   n == mem.processed_count + 1
                   save == n % opt.batch_size = 0
               IN  /\ mem' = [df |-> df1,
                              output |-> IF save THEN Val(ScrapeToCsv(df1)) ELSE mem.output,
                              processed_count |-> n]
                   /\ cnt' = [cnt EXCEPT !.saves = IF save THEN 1 ELSE @]
                   /\ hist' = [hist EXCEPT !.scraped = @ \cup {idx}]
    /\ idx' = idx + 1
    /\ UNCHANGED <<prog, pc, opt, csv, db, tx, aborted, run>>

\* The end of the loop: browser.close() and the final save.
ScrapeFinish ==
    /\ prog = "wales_scrape"
    /\ pc = "loop"
    /\ idx >= ScrapeEndIdx(ScrapeStartIdx(opt.start_from), opt.limit, Len(mem.df))
    /\ pc' = "done"
    /\ mem' = [mem EXCEPT !.output = Val(ScrapeToCsv(mem.df))]
    /\ UNCHANGED <<prog, opt, csv, idx, cnt, db, tx, aborted, run, hist>>

NextScrape == ScrapeSchool \/ ScrapeFinish

SpecScrape == InitScrape /\ [][NextScrape]_vars

----------------------------------------------------------------------------
(* safe_float (add_scottish_absence_data.py, add_scottish_achievement_scores.py)
   and extract_percentage (fix_acel_percentage_parsing.py) on the text of a
   cell.  A text is a sequence of one-character strings; a number is kept
   in hundredths. *)

\* Most blanks put before and after a text.
MaxBlanks == 1

DigitChars == <<"0", "1", "2", "3", "4", "5", "6", "7", "8", "9">>

IsDigit(c) == \E i \in 1..10 : DigitChars[i] = c

DigitValue(c) == (CHOOSE i \in 1..10 : DigitChars[i] = c) - 1

\* str.lower() on the letters the texts use.
LowerChar(c) ==
    CASE c = "Z" -> "z" [] c = "C" -> "c" [] c = "X" -> "x"
      [] c = "N" -> "n" [] c = "A" -> "a" [] OTHER -> c

Lower(s) == [i \in 1..Len(s) |-> LowerChar(s[i])]

\* str.strip()
RECURSIVE Strip(_)
Strip(s) ==
    IF s = <<>> THEN s
    ELSE IF Head(s) = " " THEN Strip(Tail(s))
    ELSE IF s[Len(s)] = " " THEN Strip(SubSeq(s, 1, Len(s) - 1))
    ELSE s

\* str.replace('%', '')
RECURSIVE RemovePercent(_)
RemovePercent(s) ==
    IF s = <<>> THEN s
    ELSE IF Head(s) = "%" THEN RemovePercent(Tail(s))
    ELSE <<Head(s)>> \o RemovePercent(Tail(s))

\* The number a run of digits writes.
RECURSIVE DigitsNumber(_)
DigitsNumber(s) ==
    IF s = <<>> THEN 0
    ELSE DigitsNumber(SubSeq(s, 1, Len(s) - 1)) * 10 + DigitValue(s[Len(s)])

AllDigits(s) == \A i \in 1..Len(s) : IsDigit(s[i])

\* The length of the run of digits s starts with.
RECURSIVE LeadingDigits(_)
LeadingDigits(s) ==
    IF s = <<>> \/ ~IsDigit(Head(s)) THEN 0 ELSE 1 + LeadingDigits(Tail(s))

\* float() of digits with an optional fraction of up to two digits: the
\* value in hundredths, or None for any other text (ValueError).
FloatUnsigned(s) ==
    LET n == LeadingDigits(s)
        frac == SubSeq(s, n + 2, Len(s))
    IN  IF n = 0 THEN NULL
        ELSE IF n = Len(s) THEN Val(DigitsNumber(s) * 100)
        ELSE IF s[n + 1] = "." /\ AllDigits(frac) /\ Len(frac) <= 2
        THEN Val(DigitsNumber(SubSeq(s, 1, n)) * 100
                 + (IF Len(frac) = 1 THEN DigitsNumber(frac) * 10 ELSE DigitsNumber(frac)))
        ELSE NULL

\* float(text): blanks around the number and a sign are accepted; None
\* stands for ValueError.
PyFloat(s) ==
    LET t == Strip(s)
    IN  IF t # <<>> /\ Head(t) = "-"
        THEN (IF NotNull(FloatUnsigned(Tail(t)))
              THEN Val(0 - Get(FloatUnsigned(Tail(t)))) ELSE NULL)
        ELSE FloatUnsigned(t)

\* ['z', 'c', 'x', '*', '-', '', 'n/a', 'na']
SuppressedValues ==
    { <<"z">>, <<"c">>, <<"x">>, <<"*">>, <<"-">>, <<>>, <<"n", "/", "a">>, <<"n", "a">> }

\* re.match(r'(\d+(?:\.\d+)?)', value_str): the number at the start of the
\* text, None without a match.
MatchLeadingNumber(s) ==
    LET n == LeadingDigits(s)
        m == IF n < Len(s) /\ s[n + 1] = "." THEN LeadingDigits(SubSeq(s, n + 2, Len(s))) ELSE 0
    IN  IF n = 0 THEN NULL
        ELSE IF m = 0 THEN FloatUnsigned(SubSeq(s, 1, n))
        ELSE FloatUnsigned(SubSeq(s, 1, n + 1 + (IF m > 2 THEN 2 ELSE m)))

\* A cell as pandas hands it over: NaN, a float of a numeric column, or the
\* text of an object column.
NanCell == [kind |-> "nan", s |-> <<>>, v |-> 0]
FloatCell(v) == [kind |-> "float", s |-> <<>>, v |-> v]
StrCell(s) == [kind |-> "str", s |-> s, v |-> 0]

\* safe_float of add_scottish_absence_data and of
\* add_scottish_achievement_scores (the two bodies are the same).
SafeFloatText(value) ==
    IF value.kind = "nan" THEN NULL
    ELSE IF value.kind = "float" THEN Val(value.v)
    ELSE IF Lower(Strip(value.s)) \in SuppressedValues THEN NULL
    ELSE PyFloat(value.s)

\* extract_percentage; str() of a float is the text float() reads back.
ExtractPercentage(value) ==
    IF value.kind = "nan" THEN NULL
    ELSE IF value.kind = "float" THEN Val(value.v)
    ELSE LET value_str == Strip(value.s)
             ranged == (\E i \in 1..Len(value_str) : value_str[i] = "-")
                       /\ (\E i \in 1..Len(value_str) : value_str[i] = "%")
         IN  IF Lower(value_str) \in SuppressedValues THEN NULL
             ELSE IF ranged /\ NotNull(MatchLeadingNumber(value_str))
             THEN MatchLeadingNumber(value_str)
             ELSE PyFloat(Strip(RemovePercent(value_str)))

\* The texts of the percentage column, each with what it is: a suppressed
\* marker, a range "lo-hi%" with its lower bound, a plain number with its
\* value, or some other text.
PercentTexts ==
    { [s |-> m, class |-> "marker", expect |-> 0] :
         m \in { <<"z">>, <<"Z">>, <<"c">>, <<"C">>, <<"x">>, <<"X">>, <<"*">>, <<"-">>, <<>>,
                 <<"n", "/", "a">>, <<"N", "/", "A">>, <<"n", "a">>, <<"N", "A">>, <<"N", "a">> } }
    \cup { [s |-> <<"9", "8", "-", "1", "0", "0", "%">>, class |-> "range", expect |-> 9800],
           [s |-> <<"0", "-", "2", "%">>, class |-> "range", expect |-> 0],
           [s |-> <<"9", ".", "5", "-", "1", "0", "%">>, class |-> "range", expect |-> 950],
           [s |-> <<"6", "7", ".", "5", "3">>, class |-> "numeric", expect |-> 6753],
           [s |-> <<"4", "5">>, class |-> "numeric", expect |-> 4500],
           [s |-> <<"0">>, class |-> "numeric", expect |-> 0],
           [s |-> <<"1", "0", "0", ".", "0">>, class |-> "numeric", expect |-> 10000],
           [s |-> <<"6", "7", ".", "5", "3", "%">>, class |-> "other", expect |-> 0],
           [s |-> <<"9", "8", "-", "1", "0", "0">>, class |-> "other", expect |-> 0],
           [s |-> <<"a", "b", "c">>, class |-> "other", expect |-> 0],
           [s |-> <<"-", "5", "%">>, class |-> "other", expect |-> 0] }

\* n blanks.
Blanks(n) == [i \in 1..n |-> " "]

\* The cells the functions are applied to: every text with up to MaxBlanks
\* blanks on either side, a float and NaN.
PercentCells ==
    { [cell |-> StrCell(Blanks(a) \o t.s \o Blanks(b)), class |-> t.class, expect |-> t.expect] :
         t \in PercentTexts, a \in 0..MaxBlanks, b \in 0..MaxBlanks }
    \cup { [cell |-> FloatCell(6753), class |-> "numeric", expect |-> 6753],
           [cell |-> NanCell, class |-> "nan", expect |-> 0] }

InitPercent ==
    /\ prog = "percent"
    /\ pc = "start"
    /\ opt = <<>>
    /\ csv \in PercentCells
    /\ idx = 1
    /\ mem = [fn |-> "", result |-> NULL]
    /\ cnt = <<>>
    /\ db = <<>>
    /\ tx = <<>>
    /\ aborted = FALSE
    /\ run = 1
    /\ hist = <<>>

\* add_scottish_absence_data reads a cell with its safe_float.
ScotAbsSafeFloat ==
    /\ prog = "percent" /\ pc = "start"
    /\ pc' = "done"
    /\ mem' = [fn |-> "add_scottish_absence_data.safe_float", result |-> SafeFloatText(csv.cell)]
    /\ UNCHANGED <<prog, opt, csv, idx, cnt, db, tx, aborted, run, hist>>

\* add_scottish_achievement_scores reads a cell with its safe_float.
AcelSafeFloat ==
    /\ prog = "percent" /\ pc = "start"
    /\ pc' = "done"
    /\ mem' = [fn |-> "add_scottish_achievement_scores.safe_float",
               result |-> SafeFloatText(csv.cell)]
    /\ UNCHANGED <<prog, opt, csv, idx, cnt, db, tx, aborted, run, hist>>

\* fix_acel_percentage_parsing reads a cell with extract_percentage.
AcelExtractPercentage ==
    /\ prog = "percent" /\ pc = "start"
    /\ pc' = "done"
    /\ mem' = [fn |-> "extract_percentage", result |-> ExtractPercentage(csv.cell)]
    /\ UNCHANGED <<prog, opt, csv, idx, cnt, db, tx, aborted, run, hist>>

NextPercent == ScotAbsSafeFloat \/ AcelSafeFloat \/ AcelExtractPercentage

SpecPercent == InitPercent /\ [][NextPercent]_vars

----------------------------------------------------------------------------
(* safe_int (add_scottish_census_data.py, add_scottish_schools.py) on the
   text of a cell *)

\* int(x) of a float kept in hundredths: the fraction is cut off, towards 0.
PyInt(v) == IF v >= 0 THEN v \div 100 ELSE 0 - ((0 - v) \div 100)

\* safe_int of add_scottish_census_data and of add_scottish_schools (the
\* two bodies are the same): None for NaN and the suppressed markers, else
\* int(float(value)), None when float() raises.
SafeIntText(value) ==
    IF value.kind = "nan" THEN NULL
    ELSE IF value.kind = "float" THEN Val(PyInt(value.v))
    ELSE IF Lower(Strip(value.s)) \in SuppressedValues THEN NULL
    ELSE IF NotNull(PyFloat(value.s)) THEN Val(PyInt(Get(PyFloat(value.s))))
    ELSE NULL

\* The texts of a pupil count column, each with what it is: digits with
\* commas as thousands separators and the integer they write, plain
\* digits, a number with a fraction, a suppressed marker, other text.
CountTexts ==
    { [s |-> <<"1", ",", "2", "3", "4">>, class |-> "thousands", expect |-> 1234],
      [s |-> <<"1", "2", ",", "3", "4", "5">>, class |-> "thousands", expect |-> 12345],
      [s |-> <<"1", ",", "0", "0", "0">>, class |-> "thousands", expect |-> 1000],
      [s |-> <<"1", ",", "2", "3", "4", ",", "5", "6", "7">>, class |-> "thousands",
       expect |-> 1234567],
      [s |-> <<"1", "2", "3", "4">>, class |-> "digits", expect |-> 1234],
      [s |-> <<"9", "9", "9">>, class |-> "digits", expect |-> 999],
      [s |-> <<"0">>, class |-> "digits", expect |-> 0],
      [s |-> <<"1", "2", ".", "7">>, class |-> "fraction", expect |-> 12],
      [s |-> <<"-", "3", ".", "5">>, class |-> "fraction", expect |-> 0 - 3],
      [s |-> <<"z">>, class |-> "marker", expect |-> 0],
      [s |-> <<"N", "/", "A">>, class |-> "marker", expect |-> 0],
      [s |-> <<"a", "b", "c">>, class |-> "other", expect |-> 0] }

\* The cells safe_int is applied to: every text with up to MaxBlanks blanks
\* on either side, a float of a numeric column and NaN.
CountCells ==
    { [cell |-> StrCell(Blanks(a) \o t.s \o Blanks(b)), class |-> t.class, expect |-> t.expect] :
         t \in CountTexts, a \in 0..MaxBlanks, b \in 0..MaxBlanks }
    \cup { [cell |-> FloatCell(123400), class |-> "digits", expect |-> 1234],
           [cell |-> NanCell, class |-> "nan", expect |-> 0] }

InitSafeInt ==
    /\ prog = "safe_int"
    /\ pc = "start"
    /\ opt = <<>>
    /\ csv \in CountCells
    /\ idx = 1
    /\ mem = [fn |-> "", result |-> NULL]
    /\ cnt = <<>>
    /\ db = <<>>
    /\ tx = <<>>
    /\ aborted = FALSE
    /\ run = 1
    /\ hist = <<>>

\* add_scottish_census_data reads a count with its safe_int.
CensusSafeInt ==
    /\ prog = "safe_int" /\ pc = "start"
    /\ pc' = "done"
    /\ mem' = [fn |-> "add_scottish_census_data.safe_int", result |-> SafeIntText(csv.cell)]
    /\ UNCHANGED <<prog, opt, csv, idx, cnt, db, tx, aborted, run, hist>>

\* add_scottish_schools reads a count with its safe_int.
ScotSchoolsSafeInt ==
    /\ prog = "safe_int" /\ pc = "start"
    /\ pc' = "done"
    /\ mem' = [fn |-> "add_scottish_schools.safe_int", result |-> SafeIntText(csv.cell)]
    /\ UNCHANGED <<prog, opt, csv, idx, cnt, db, tx, aborted, run, hist>>

NextSafeInt == CensusSafeInt \/ ScotSchoolsSafeInt

SpecSafeInt == InitSafeInt /\ [][NextSafeInt]_vars

----------------------------------------------------------------------------
(* clean_phone (upload_fr_ecoles.py) *)

\* Most digits after the prefix of a telephone text.
MaxPhoneDigits == 11

\* re.sub(r"\D", "", value)
OnlyDigits(s) == SeqFilter(s, [i \in 1..Len(s) |-> IsDigit(s[i])])

\* "if len(digits) >= 10: return digits[:10]"
ClampPhoneKeepsAll(digits) == digits
ClampPhone(digits) == IF Len(digits) >= 10 THEN SubSeq(digits, 1, 10) ELSE digits

\* digits.startswith(prefix)
StartsWith(s, prefix) == Len(s) >= Len(prefix) /\ SubSeq(s, 1, Len(prefix)) = prefix

\* "33.." of 11 digits or more becomes "0..", a missing leading 0 is added.
PhonePrefix(digits) ==
    IF StartsWith(digits, <<"3", "3">>) /\ Len(digits) >= 11
    THEN <<"0">> \o SubSeq(digits, 3, Len(digits))
    ELSE IF ~StartsWith(digits, <<"0">>) THEN <<"0">> \o digits
    ELSE digits

\* clean_phone: value is None or a text.
CleanPhone(value) ==
    IF IsNull(value) \/ Get(value) = <<>> THEN NULL
    ELSE IF OnlyDigits(Get(value)) = <<>> THEN NULL
    ELSE Val(ClampPhone(PhonePrefix(OnlyDigits(Get(value)))))

\* The first k digits of 1234567890123..., written in pairs when spaced.
PhoneBody(k, spaced) ==
    LET d == [i \in 1..k |-> DigitChars[((i % 10) + 1)]]
        RECURSIVE build(_)
        build(i) == IF i > k THEN <<>>
                    ELSE (IF spaced /\ i % 2 = 0 THEN <<" ", d[i]>> ELSE <<d[i]>>) \o build(i + 1)
    IN  build(1)

PhonePrefixes ==
    { <<>>, <<"+">>, <<"0">>, <<"3">>, <<"3", "3">>, <<"+", "3", "3", " ">>,
      <<"0", "0", "3", "3">>, <<"(", "0", ")">>, <<"t", "e", "l", ":">> }

\* The telephone cells of french_school.csv, and None.
PhoneValues ==
    { Val(p \o PhoneBody(k, sp)) : p \in PhonePrefixes, k \in 0..MaxPhoneDigits, sp \in BOOLEAN }
    \cup {NULL}

InitPhone ==
    /\ prog = "clean_phone"
    /\ pc = "start"
    /\ opt = <<>>
    /\ csv \in PhoneValues
    /\ idx = 1
    /\ mem = [result |-> NULL, again |-> NULL]
    /\ cnt = <<>>
    /\ db = <<>>
    /\ tx = <<>>
    /\ aborted = FALSE
    /\ run = 1
    /\ hist = <<>>

\* row_to_values cleans the telephone cell.
PhoneClean ==
    /\ prog = "clean_phone" /\ pc = "start"
    /\ pc' = "once"
    /\ mem' = [mem EXCEPT !.result = CleanPhone(csv)]
    /\ UNCHANGED <<prog, opt, csv, idx, cnt, db, tx, aborted, run, hist>>

\* The cleaned value is cleaned again (a re-upload of exported data).
PhoneCleanAgain ==
    /\ prog = "clean_phone" /\ pc = "once"
    /\ pc' = "twice"
    /\ mem' = [mem EXCEPT !.again = CleanPhone(mem.result)]
    /\ UNCHANGED <<prog, opt, csv, idx, cnt, db, tx, aborted, run, hist>>

NextPhone == PhoneClean \/ PhoneCleanAgain

SpecPhone == InitPhone /\ [][NextPhone]_vars

----------------------------------------------------------------------------
(* Properties *)

ScotProgs == {"scot_absence", "scot_census"}

\* The yearly table the running Scottish loader writes.
ScotTable(d) == IF prog = "scot_absence" THEN d.absence ELSE d.census

\* C1: a second run of add_scottish_absence_data or add_scottish_census_data
\* over the same CSV, no row raising in either run, leaves the table as the
\* first run left it (same rows, same values) and inserts nothing.
C1_SecondRunIdempotent ==
    (prog \in ScotProgs /\ run = 2 /\ pc = "done" /\ hist.errors = 0)
        => /\ ScotTable(db) = ScotTable(hist.after1)
           /\ cnt.inserted = 0

\* A second run has finished without error after having updated rows that the
\* first run inserted.
C1_Witness ==
    /\ prog \in ScotProgs /\ run = 2 /\ pc = "done" /\ hist.errors = 0
    /\ cnt.updated >= 2
    /\ Len(ScotTable(db)) > Len(ScotTable(hist.db0))

\* C2: a second run of update_ni_attendance with the same files and the same
\* --academic-year leaves the number of rows of uk_absence_data unchanged.
C2_SecondRunSameRowCount ==
    (prog = "ni_attendance" /\ run = 2 /\ pc = "done")
        => Len(db.absence) = Len(hist.after1.absence)

\* C3: after any sequence of runs of insert_wales_attendance, uk_absence_data
\* holds at most one row per (urn, academic_year).
C3_OneRowPerUrnYear ==
    prog = "wales_att"
        => \A u \in CsvSeeds, y \in {Y2324, OtherYear} : AbsCount(db.absence, u, y) <= 1

\* The table the running updater writes, as the open transaction sees it.
UpdatedTable == IF prog = "edubase" THEN tx.uk_schools ELSE ScotTable(tx)

\* The nullable columns of that table.
NullableColumns ==
    IF prog = "edubase" THEN EdubaseColumns
    ELSE IF prog = "scot_absence" THEN {"overall", "persistent", "la_code", "estab"}
    ELSE CensusColumns

\* The columns an UPDATE of the running loader cannot turn into NULL: all of
\* them under COALESCE, and in the Scottish UPDATE branches the columns always
\* assigned a value and the columns not assigned at all.
ProtectedColumns ==
    IF prog = "edubase" THEN EdubaseColumns
    ELSE IF prog = "scot_absence" THEN {"overall", "estab"}
    ELSE {"estab_number", "number_unclassified_language",
          "percentage_unclassified_language"}

\* Every column among cols that was known before the last step is still known.
KeptKnown(cols) ==
    \A i \in DOMAIN hist.before : \A c \in cols :
        NotNull(hist.before[i][c]) => NotNull(UpdatedTable[i][c])

UpdaterProgs == {"edubase", "scot_absence", "scot_census"}

\* C4 as claimed: whenever update_edubase or the UPDATE branch of
\* add_scottish_absence_data or add_scottish_census_data has updated existing
\* rows, every column that was non-null before is non-null after.
C4_NullNeverOverwrites ==
    (prog \in UpdaterProgs /\ hist.lastKind = "updated") => KeptKnown(NullableColumns)

\* C4 as amended: that holds for every column under the COALESCE update of
\* update_edubase; under the UPDATE branches of the two Scottish loaders it
\* holds for the columns they do not overwrite with NULL or with a CSV value
\* that may be null.
C4_CoalesceKeepsKnown ==
    (prog \in UpdaterProgs /\ hist.lastKind = "updated") => KeptKnown(ProtectedColumns)

\* update_edubase has updated a school whose telephone was known from a CSV
\* row without telephone.
C4_Witness ==
    /\ prog = "edubase" /\ hist.lastKind = "updated"
    /\ idx > 1
    /\ IsNull(CleanPhoneNumber(csv[idx - 1].phone))
    /\ NotNull(hist.before[csv[idx - 1].urn].telephone)

\* C5: in the batch-committing Scottish loaders a row that raises discards
\* only its own work: every school written without error during the run has
\* its row in the table after the final commit.
C5_EarlierRowsSurvive ==
    (prog \in ScotProgs /\ pc = "done")
        => \A s \in hist.okSeeds : \E i \in 1..Len(ScotTable(db)) :
               ScotTable(db)[i].urn = s /\ ScotTable(db)[i].year = Y2324

\* C7: in update_schools a database error on one URN skips only that row:
\* failed_updates counts exactly the rows whose own UPDATE the database
\* rejected, and the updates of all other rows are committed.
C7_OnlyFailingRowSkipped ==
    (prog = "edubase" /\ pc = "done")
        => /\ cnt.failed_updates = hist.dbErrors
           /\ db.uk_schools = hist.expected

\* A row of add_scottish_schools that is written when the loop reaches it
\* with a healthy transaction.
ScotSchoolValid(r) ==
    /\ r.seed.kind = "num"
    /\ r.name.kind = "text"
    /\ ~ScotSchoolDbError(r)

\* A row of add_scottish_schools whose statement fails in the database.
ScotSchoolFails(r) ==
    /\ r.seed.kind = "num"
    /\ r.name.kind = "text"
    /\ ScotSchoolDbError(r)

\* C6: in add_scottish_schools, once a row has raised a database error,
\* every later valid row is still written and persisted by the final commit:
\* after the run uk_schools holds its school as a Scottish school.
C6_LaterRowsPersisted ==
    (prog = "scot_schools" /\ pc = "done")
        => \A i \in 1..Len(csv) : \A j \in 1..Len(csv) :
               (i < j /\ ScotSchoolFails(csv[i]) /\ ScotSchoolValid(csv[j]))
                   => /\ NotNull(db.uk_schools[csv[j].seed.v])
                      /\ Get(db.uk_schools[csv[j].seed.v]).country = "Scotland"

\* A row of the ACEL CSV that carries a figure for a Scottish school of
\* uk_schools.
AcelRowHasScore(r, t) ==
    /\ r.seed.kind = "num"
    /\ r.pct.kind = "num"
    /\ r.organiser \in AcelEnglishOrganisers \cup {"Numeracy"}
    /\ AcelRowCount(t, r.seed.v) = 1

\* C8: a row whose school key cannot be parsed never aborts a run of
\* add_scottish_achievement_scores: the run ends with its final commit, and
\* every school for which the CSV carries a figure has its score written.
C8_BadKeyNeverAborts ==
    (prog = "acel" /\ pc \in {"done", "failed"})
        => /\ pc = "done"
           /\ \A i \in 1..Len(csv) :
                 AcelRowHasScore(csv[i], hist.db0.uk_schools)
                     => LET row == Get(db.uk_schools[csv[i].seed.v])
                        IN  IF csv[i].organiser = "Numeracy"
                            THEN row.math_score = AcelAverage(mem.school_scores[csv[i].seed.v].math_scores)
                            ELSE row.english_score = AcelAverage(mem.school_scores[csv[i].seed.v].english_components)

\* 100 - a clamped to [0, 100], in hundredths.
ClampedAbsence(a) ==
    IF 10000 - a < 0 THEN 0 ELSE IF 10000 - a > 10000 THEN 10000 ELSE 10000 - a

\* The attendance figures the CSV gives for school u.
AttendanceOf(rows, u) ==
    {rows[i].att.v : i \in {j \in 1..Len(rows) :
                               /\ rows[j].att.kind = "num"
                               /\ IF prog = "wales_att"
                                  THEN rows[j].urn = Num(u)
                                  ELSE rows[j].seed = Num(u)}}

\* C9: every overall_absence_rate that add_scottish_absence_data or
\* insert_wales_attendance holds ready for the table lies in [0, 100], and
\* one derived from an attendance percentage a is 100 - a clamped to [0, 100].
C9_AbsenceClamped ==
    /\ (prog = "scot_absence" /\ hist.lastKind \in {"inserted", "updated"})
           => LET r == csv[idx - 1]
                  written == hist.lastOk[r.seed.v]
              IN  /\ NotNull(written)
                  /\ Get(written) >= 0 /\ Get(written) <= 10000
                  /\ r.att.kind = "num" => Get(written) = ClampedAbsence(r.att.v)
    /\ (prog = "wales_att" /\ pc = "done")
           => \A i \in 1..Len(mem.data) :
                 LET written == Get(mem.data[i].overall_absence_rate)
                 IN  /\ written >= 0 /\ written <= 10000
                     /\ ~csv.absence_key
                            => \E a \in AttendanceOf(csv.rows, mem.data[i].urn) :
                                   written = ClampedAbsence(a)

\* C10: a run of import_ni_schools, insert_wales_attendance or update_fr_data
\* with --dry-run leaves the committed contents of every table as they were
\* when the run started.
C10_DryRunChangesNothing ==
    (prog \in {"ni_schools", "wales_att", "fr_data"} /\ pc \in {"done", "failed"}
        /\ opt.dry_run) => db = hist.runStart

\* A dry run of import_ni_schools or update_fr_data has ended after its
\* statements had changed the tables inside the transaction.
C10_Witness ==
    /\ prog \in {"ni_schools", "fr_data"}
    /\ pc = "done"
    /\ opt.dry_run
    /\ hist.executed # hist.runStart
    /\ db = hist.runStart

\* C11: a run of new_upload_wales_data with --dry-run commits no change of
\* data or schema: the committed database, the existence of uk_absence_data
\* included, stays as it was when the run started.
C11_DryRunCommitsNothing ==
    (prog = "wales_upload" /\ opt.dry_run) => db = hist.db0

\* C12: when process_schools ends, every school that had no latitude or
\* no longitude when the run started has had exactly one geocoding attempt.
C12_EverySchoolAttemptedOnce ==
    (prog = "geolocate" /\ pc = "done")
        => \A i \in GeoIds :
              (IsNull(hist.db0.uk_schools[i].latitude)
                  \/ IsNull(hist.db0.uk_schools[i].longitude))
                  => hist.attempts[i] = 1

\* The cleaned rows of the CSV that carry identifier id.
RowsOfId(id) ==
    SeqFilter(LoadCsvRows(csv), [i \in 1..Len(csv) |-> LoadCsvRows(csv)[i].id = Val(id)])

\* C13: upsert_rows never fails on duplicate identifiers, and after it has
\* finished fr_ecoles holds, for every identifier of the CSV, the row with
\* the values of the identifier's last occurrence (the primary key allows
\* one row per identifier), and no other row has changed.
C13_LastOccurrenceWins ==
    prog = "fr_upload" =>
        /\ pc # "failed"
        /\ pc = "done" =>
              \A u \in DOMAIN db.fr_ecoles :
                 IF RowsOfId(u) = <<>> THEN db.fr_ecoles[u] = hist.db0.fr_ecoles[u]
                 ELSE db.fr_ecoles[u] = Val(RowsOfId(u)[Len(RowsOfId(u))].nom)

\* A run has finished over a CSV that lists identifier A three times with
\* different values, twice inside the first batch and once in the next.
C13_Witness ==
    /\ prog = "fr_upload" /\ pc = "done"
    /\ opt.batch = 2
    /\ Len(RowsOfId("A")) = 3
    /\ RowsOfId("A")[1].nom # RowsOfId("A")[2].nom
    /\ RowsOfId("A")[2].nom # RowsOfId("A")[3].nom
    /\ LoadCsvRows(csv)[1].id = Val("A") /\ LoadCsvRows(csv)[2].id = Val("A")

\* What uk_schools holds when exactly the rows that raise no database
\* error have been applied, in CSV order.
RECURSIVE WalesSchoolsExpected(_, _, _)
WalesSchoolsExpected(t, rows, update_only) ==
    IF rows = <<>> THEN t
    ELSE LET data == WalesSchoolData(Head(rows))
             u == Get(data.urn)
             next == IF WalesSchoolNoUrn(data) \/ WalesSchoolDbError(data) THEN t
                     ELSE IF NotNull(t[u]) THEN UpdateSchool(t, u, data).tab
                     ELSE IF update_only THEN t
                     ELSE InsertSchool(t, u, data).tab
         IN  WalesSchoolsExpected(next, Tail(rows), update_only)

\* C14: after a run of process_schools, uk_schools holds the update or
\* insert of every row that raised no database error, whether the row came
\* before or after a failing one; only the failing rows are missing.
C14_OtherRowsPersisted ==
    (prog = "wales_schools" /\ pc = "done")
        => db.uk_schools = WalesSchoolsExpected(hist.db0.uk_schools, csv, opt.update_only)

\* A run has finished over a CSV whose second row failed in the database
\* between two rows of other schools, the last of which was inserted.
C14_Witness ==
    /\ prog = "wales_schools" /\ pc = "done" /\ ~opt.update_only
    /\ Len(csv) = 3
    /\ cnt.failed_updates = 1
    /\ WalesSchoolDbError(WalesSchoolData(csv[2]))
    /\ csv[1].number = Num(1) /\ csv[2].number = Num(2) /\ csv[3].number = Num(3)
    /\ IsNull(hist.db0.uk_schools[3]) /\ NotNull(db.uk_schools[3])
    /\ db.uk_schools[1] # hist.db0.uk_schools[1]

\* The URNs uk_schools holds.
WalesSchoolsPresent(t) == {u \in WalesSchoolUrns : NotNull(t[u])}

\* C17: with --update-only import_wales_schools never inserts: at every
\* point of the run uk_schools holds the URNs it held before the run.
C17_UpdateOnlyNeverInserts ==
    (prog = "wales_schools" /\ opt.update_only)
        => /\ WalesSchoolsPresent(db.uk_schools) = WalesSchoolsPresent(hist.db0.uk_schools)
           /\ WalesSchoolsPresent(tx.uk_schools) = WalesSchoolsPresent(hist.db0.uk_schools)

\* An --update-only run has finished over a CSV that names a school
\* uk_schools does not hold, in a row the database would accept, and has
\* updated a school it holds.
C17_Witness ==
    /\ prog = "wales_schools" /\ pc = "done" /\ opt.update_only
    /\ \E i \in 1..Len(csv) :
          /\ csv[i].number = Num(3)
          /\ ~WalesSchoolDbError(WalesSchoolData(csv[i]))
    /\ db.uk_schools[1] # hist.db0.uk_schools[1]

AddrFilledColumns == {"street", "latitude", "la_code"}

\* Table t keeps every value of table t0 that is not NULL.
AddrKeepsKnown(t0, t) ==
    \A i \in AddrIds : \A c \in AddrFilledColumns :
        NotNull(t0[i][c]) => t[i][c] = t0[i][c]

WalesLastData(urn) ==
    mem.data[CHOOSE i \in 1..Len(mem.data) :
                /\ mem.data[i].urn = urn
                /\ \A j \in (i + 1)..Len(mem.data) : mem.data[j].urn # urn]

\* C16: after a run of insert_wales_attendance the rows uk_absence_data held
\* before the run are still there, at their place.  Without
\* --update-existing none of them has changed; with it a row of the given
\* year whose URN the CSV stages holds the figures of the CSV and the other
\* rows have not changed.  In both modes every added row belongs to a
\* school of uk_schools that had no row for the year before the run.
C16_ExistingSkippedOrUpdated ==
    (prog = "wales_att" /\ pc = "done")
        => LET t0 == hist.runStart.absence
               t == db.absence
               staged == {mem.data[i].urn : i \in 1..Len(mem.data)} \cap db.schools
           IN  /\ Len(t) >= Len(t0)
               /\ \A i \in 1..Len(t0) :
                     IF /\ opt.update_existing /\ ~opt.dry_run
                        /\ t0[i].year = opt.year /\ t0[i].urn \in staged
                     THEN t[i] = [t0[i] EXCEPT
                                     !.overall = WalesLastData(t0[i].urn).overall_absence_rate,
                                     !.persistent = WalesLastData(t0[i].urn).persistent_absence_rate]
                     ELSE t[i] = t0[i]
               /\ \A i \in (Len(t0) + 1)..Len(t) :
                     /\ t[i].urn \in db.schools
                     /\ t[i].year = opt.year
                     /\ ~AbsExisting(t0, t[i].urn, t[i].year)

\* A run with --update-existing has finished: the CSV staged school 1, which
\* had a row for the year and now holds other figures in the same single
\* row, school 2, which received a row, and school 3, which uk_schools
\* does not hold.
C16_Witness ==
    /\ prog = "wales_att" /\ pc = "done" /\ opt.update_existing /\ ~opt.dry_run
    /\ {1, 2, 3} \subseteq {mem.data[i].urn : i \in 1..Len(mem.data)}
    /\ AbsCount(hist.runStart.absence, 1, opt.year) = 1
    /\ AbsCount(db.absence, 1, opt.year) = 1
    /\ db.absence[1] # hist.runStart.absence[1]
    /\ AbsCount(hist.runStart.absence, 2, opt.year) = 0
    /\ AbsCount(db.absence, 2, opt.year) = 1

\* A run without --update-existing has finished: the CSV staged school 1
\* with other figures than its row for the year, which is unchanged, and
\* school 2, which received a row.
C16_WitnessSkipped ==
    /\ prog = "wales_att" /\ pc = "done" /\ ~opt.update_existing /\ ~opt.dry_run
    /\ {1, 2} \subseteq {mem.data[i].urn : i \in 1..Len(mem.data)}
    /\ AbsCount(hist.runStart.absence, 1, opt.year) = 1
    /\ WalesLastData(1).overall_absence_rate # hist.runStart.absence[1].overall
    /\ db.absence[1] = hist.runStart.absence[1]
    /\ AbsCount(db.absence, 2, opt.year) = 1

\* C18: when --only-uai is given, whatever its value, no fr_ecoles row and
\* no fr_tables row of a UAI outside the parsed list is inserted or
\* modified, in the transaction or in the committed tables; with an empty
\* parsed list nothing is.
C18_OnlyListedUaisTouched ==
    (prog = "fr_data" /\ NotNull(opt.only_uai))
        => \A u \in FrUais \ Get(opt.only_uai) :
              /\ db.fr_ecoles[u] = hist.db0.fr_ecoles[u]
              /\ db.fr_tables[u] = hist.db0.fr_tables[u]
              /\ hist.executed.fr_ecoles[u] = hist.db0.fr_ecoles[u]
              /\ hist.executed.fr_tables[u] = hist.db0.fr_tables[u]

\* Row index i (from 0) lies in [start_from, start_from + limit), where no
\* --start-from means 0 and no --limit means no upper end.
ScrapeInRange(i) ==
    LET s == IF IsNull(opt.start_from) THEN 0 ELSE Get(opt.start_from)
    IN  i >= s /\ (IsNull(opt.limit) \/ i < s + Get(opt.limit))

\* C19: a school that has an fsm_3yr_pct value in the input, or whose row
\* index lies outside [start_from, start_from + limit), is never scraped and
\* its row in every written output file equals its input row; a written
\* output file has the rows of the input, in the same order.
C19_SkippedRowsUntouched ==
    prog = "wales_scrape"
        => /\ \A i \in 0..(Len(csv) - 1) :
                 (~IsNa(csv[i + 1].fsm_3yr_pct) \/ ~ScrapeInRange(i))
                     => /\ i \notin hist.scraped
                        /\ NotNull(mem.output) => Get(mem.output)[i + 1] = csv[i + 1]
           /\ NotNull(mem.output)
                 => /\ Len(Get(mem.output)) = Len(csv)
                    /\ \A i \in 1..Len(csv) : Get(mem.output)[i].name = csv[i].name

\* C20: each of the three value cleaners gives None for a suppressed marker
\* in any letter case and with blanks around it, the lower bound for a
\* percentage range "lo-hi%", and the value for a plain number.
C20_CleanerMapping ==
    (prog = "percent" /\ pc = "done")
        => /\ csv.class = "marker" => IsNull(mem.result)
           /\ csv.class = "range" => mem.result = Val(csv.expect)
           /\ csv.class = "numeric" => mem.result = Val(csv.expect)

\* C21: safe_int of digits written with commas as thousands separators is
\* the integer with the commas removed, never None.
C21_ThousandsSeparator ==
    (prog = "safe_int" /\ pc = "done" /\ csv.class = "thousands")
        => mem.result = Val(csv.expect)

\* The digits of the telephone cell, in order.
PhoneDigitsOf(value) ==
    IF IsNull(value) THEN <<>>
    ELSE SeqFilter(Get(value), [i \in 1..Len(Get(value)) |-> IsDigit(Get(value)[i])])

\* C22: clean_phone gives None exactly for an input without digit, else
\* digits only, starting with "0", at most 10 of them; digits that start
\* with 33 and number at least 11 have the 33 replaced by one 0; and
\* cleaning the result again gives the same result.
C22_CleanPhone ==
    (prog = "clean_phone" /\ pc # "start")
        => LET d == PhoneDigitsOf(csv)
               r == mem.result
           IN  /\ IsNull(r) <=> d = <<>>
               /\ NotNull(r) => /\ AllDigits(Get(r))
                                /\ Get(r) # <<>> /\ Head(Get(r)) = "0"
                                /\ Len(Get(r)) <= 10
               /\ (Len(d) >= 11 /\ d[1] = "3" /\ d[2] = "3")
                     => r = Val(SubSeq(<<"0">> \o SubSeq(d, 3, Len(d)), 1, 10))
               /\ pc = "twice" => mem.again = r

\* "+33 1 23 45 67 89" has been cleaned to "0123456789" and cleaned again.
C22_Witness ==
    /\ prog = "clean_phone" /\ pc = "twice"
    /\ csv = Val(<<"+", "3", "3", " ", "1", " ", "2", "3", " ", "4", "5", " ", "6", "7",
                   " ", "8", "9">>)
    /\ mem.result = Val(<<"0", "1", "2", "3", "4", "5", "6", "7", "8", "9">>)
    /\ mem.again = mem.result

\* The order in which process_schools tries the addresses of a school.
GeoFixedOrder ==
    <<"address with name", "address without name", "name and postcode", "postcode">>

C24_OtherYearsUntouched ==
    (prog = "wales_upload" /\ ~opt.dry_run)
        => /\ \A i \in 1..Len(hist.db0.absence) :
                 hist.db0.absence[i].year # opt.year
                     => /\ Len(db.absence) >= i
                        /\ db.absence[i].urn = hist.db0.absence[i].urn
                        /\ db.absence[i].year = hist.db0.absence[i].year
                        /\ db.absence[i].overall = hist.db0.absence[i].overall
           /\ pc = "done"
                 => \A u \in SchoolUrns :
                       (NotNull(csv[u]) /\ NotNull(UploadToNumber(Get(csv[u]).att)))
                           => AbsCount(db.absence, u, opt.year) = 1

\* C25: at the end of the row loop of add_scottish_absence_data the
\* counters account for every CSV row, inserted + updated + skipped being
\* the number of CSV rows, and the rows counted as written are persisted by
\* the final commit; of the latter the formula states what the table
\* shows: uk_absence_data has gained exactly "inserted" rows.
C25_CountersAccountForRows ==
    (prog = "scot_absence" /\ pc = "done" /\ run = 1)
        => /\ cnt.inserted + cnt.updated + cnt.skipped = Len(csv)
           /\ Len(db.absence) - Len(hist.db0.absence) = cnt.inserted

====
